---------------------------- MODULE Spec2Model ----------------------------
(***************************************************************************)
(* A model of posy's resolver core: the platform-tag algebra               *)
(* (src/platform_tags/expand.rs), the version selector, PYBI choice and    *)
(* the pubgrub dependency provider (src/resolve.rs).                       *)
(*                                                                         *)
(* A platform tag is a string in the source.  Here it is the record of the *)
(* pieces the source's regular expressions take it apart into:             *)
(*   os     the literal head: "manylinux", "musllinux", "macosx", a legacy *)
(*          head "manylinux1" / "manylinux2010" / "manylinux2014", "win",  *)
(*          or "other" for a tag no expression matches;                    *)
(*   major, minor   the two [0-9]+ groups, as the digit strings written in *)
(*          the tag (so "05" and "5" are different tags);                  *)
(*   arch   the trailing [a-zA-Z0-9_]* group (the rest of the tag for      *)
(*          "win" and "other").                                            *)
(* Two tags are the same string exactly when their records are equal.      *)
(***************************************************************************)
EXTENDS Integers, Sequences, FiniteSets, TLC

VARIABLES
    xp,      \* one call of expand_platform_tag or of compat_groups: its argument and its result
    ps,      \* a PlatformImpl under a sequence of push calls
    pf,      \* a PybiPlatform built from core tags, and a WheelPlatform derived from it
    fsv,      \* one call of fetch_and_sort_versions: its inputs and its result
    pb,      \* one call of resolve_pybi: its inputs and its result
    rs,      \* one call of resolve_wheels: the PubgrubState and the solver's state
    ap,      \* an AllowPre on its way through serialization and back
    sk,      \* a SeekSlice over a reader, under a sequence of seeks and reads
    dp       \* a PubgrubState called as a DependencyProvider, and its last call

vars == <<xp, ps, pf, fsv, pb, rs, ap, sk, dp>>

(***************************************************************************)
(* Bounds of the model.                                                    *)
(***************************************************************************)
MaxLinuxMinor == 18
MaxMacMajor == 12
MaxMacMinor == 16
MaxPushes == 5
MaxCoreTags == 2
MaxArtifacts == 3
MaxItems == 2

(***************************************************************************)
(* Helpers on sequences.                                                   *)
(***************************************************************************)
Range(s) == {s[i] : i \in DOMAIN s}

NoDup(s) == \A i, j \in DOMAIN s : s[i] = s[j] => i = j

\* the least index at which x occurs in s (0 when it does not occur)
IndexOf(s, x) ==
    IF x \in Range(s) THEN CHOOSE i \in DOMAIN s : s[i] = x /\ \A j \in 1..(i - 1) : s[j] # x
    ELSE 0

\* the two halves of a sequence of two or more elements (loops over long
\* sequences are unrolled by halves, which keeps their order)
FirstHalf(s) == SubSeq(s, 1, Len(s) \div 2)
SecondHalf(s) == SubSeq(s, Len(s) \div 2 + 1, Len(s))

RECURSIVE Concat(_)
Concat(ss) ==
    IF ss = <<>> THEN <<>>
    ELSE IF Len(ss) = 1 THEN ss[1]
    ELSE Concat(FirstHalf(ss)) \o Concat(SecondHalf(ss))

\* the sequences over S of length at most n
RECURSIVE SeqsUpTo(_, _)
SeqsUpTo(S, n) ==
    IF n = 0 THEN {<<>>}
    ELSE LET shorter == SeqsUpTo(S, n - 1)
         IN  shorter \cup {Append(s, x) : s \in shorter, x \in S}

(***************************************************************************)
(* Numbers inside tags: str::parse::<u32>() and format!("{}").  The model  *)
(* keeps the numbers far below 2^32, where parse().unwrap() would panic.   *)
(***************************************************************************)
RECURSIVE ParseU32(_)
ParseU32(ds) ==
    IF ds = <<>> THEN 0
    ELSE 10 * ParseU32(SubSeq(ds, 1, Len(ds) - 1)) + ds[Len(ds)]

RECURSIVE FormatU32(_)
FormatU32(n) == IF n < 10 THEN <<n>> ELSE FormatU32(n \div 10) \o <<n % 10>>

NoDigits == <<>>

\* format!("{variant}linux_{major}_{minor}_{arch}") and format!("macosx_{}_{}_{}")
FormatTag(os, major, minor, arch) ==
    [os |-> os, major |-> FormatU32(major), minor |-> FormatU32(minor), arch |-> arch]

\* format!("manylinux2014_{}", arch) and its siblings
FormatLegacy(os, arch) == [os |-> os, major |-> NoDigits, minor |-> NoDigits, arch |-> arch]

\* a tag as written, its numbers given as digit strings
RawTag(os, major, minor, arch) == [os |-> os, major |-> major, minor |-> minor, arch |-> arch]

WinTag(rest) == RawTag("win", NoDigits, NoDigits, rest)
OtherTag(text) == RawTag("other", NoDigits, NoDigits, text)

(***************************************************************************)
(* The regular expressions.                                                *)
(***************************************************************************)
LegacyHeads == {"manylinux1", "manylinux2010", "manylinux2014"}

LINUX_RE(tag) ==
    /\ tag.os \in {"manylinux", "musllinux"}
    /\ tag.major # NoDigits
    /\ tag.minor # NoDigits

LEGACY_MANYLINUX_RE(tag) == tag.os \in LegacyHeads

MACOSX_RE(tag) ==
    /\ tag.os = "macosx"
    /\ tag.major # NoDigits
    /\ tag.minor # NoDigits

(***************************************************************************)
(* expand_platform_tag                                                     *)
(***************************************************************************)
\* the match on `which`: the canonical minor of a legacy head
LegacyMinor(which) ==
    CASE which = "manylinux2014" -> 17
      [] which = "manylinux2010" -> 12
      [] which = "manylinux1" -> 5

\* the alias match as it would be if it looked at the minor alone
LegacyAliasAnyMajor(major, minor, arch) ==
    CASE minor = 17 -> <<FormatLegacy("manylinux2014", arch)>>
      [] minor = 12 -> <<FormatLegacy("manylinux2010", arch)>>
      [] minor = 5 -> <<FormatLegacy("manylinux1", arch)>>
      [] OTHER -> <<>>

\* the match on (major, minor) inside the loop: the alias pushed after a canonical tag
LegacyAlias(major, minor, arch) ==
    CASE major = 2 /\ minor = 17 -> <<FormatLegacy("manylinux2014", arch)>>
      [] major = 2 /\ minor = 12 -> <<FormatLegacy("manylinux2010", arch)>>
      [] major = 2 /\ minor = 5 -> <<FormatLegacy("manylinux1", arch)>>
      [] OTHER -> <<>>

\* for minor in (0..=max_minor).rev() { ... }
RECURSIVE LinuxExpansion(_, _, _, _)
LinuxExpansion(variant, major, minor, arch) ==
    LET here == <<FormatTag(variant, major, minor, arch)>>
                    \o (IF variant = "manylinux" THEN LegacyAlias(major, minor, arch) ELSE <<>>)
    IN  IF minor = 0 THEN here
        ELSE here \o LinuxExpansion(variant, major, minor - 1, arch)

\* the match on `arch` in the macOS branch
MacArches(arch) ==
    CASE arch = "x86_64" -> <<"x86_64", "universal2", "intel", "fat64", "fat3", "universal">>
      [] arch = "arm64" -> <<"arm64", "universal2">>
      [] OTHER -> <<arch>>

\* the versions as they would be if a macOS 11+ major kept the tag's minor
MacVersionsKeepMinor(major, minor) ==
    LET max_10_minor == IF major = 10 THEN minor ELSE 15
        macos_11plus_vers == [i \in 1..(major - 10) |-> <<major + 1 - i, IF i = 1 THEN minor ELSE 0>>]
        macos_10_vers == [i \in 1..(max_10_minor + 1) |-> <<10, max_10_minor + 1 - i>>]
    IN  macos_11plus_vers \o macos_10_vers

\* macos_11plus_vers.chain(macos_10_vers): <<major, minor>> pairs, best first
MacVersions(major, minor) ==
    LET max_10_minor == IF major = 10 THEN minor ELSE 15
        macos_11plus_vers == [i \in 1..(major - 10) |-> <<major + 1 - i, 0>>]
        macos_10_vers == [i \in 1..(max_10_minor + 1) |-> <<10, max_10_minor + 1 - i>>]
    IN  macos_11plus_vers \o macos_10_vers

\* all_vers.flat_map(|(major, minor)| arches.iter().map(...))
MacExpansion(major, minor, arch) ==
    LET vs == MacVersions(major, minor)
        arches == MacArches(arch)
    IN  Concat([i \in DOMAIN vs |->
                  [j \in DOMAIN arches |-> FormatTag("macosx", vs[i][1], vs[i][2], arches[j])]])

\* the head of expand_platform_tag as it would be without the legacy rewriting
CanonicalIdentity(tag) == tag

\* the rewriting of a legacy tag at the head of expand_platform_tag
Canonical(tag) ==
    IF LEGACY_MANYLINUX_RE(tag)
    THEN FormatTag("manylinux", 2, LegacyMinor(tag.os), tag.arch)
    ELSE tag

expand_platform_tag(tag0) ==
    LET tag == Canonical(tag0)
    IN  IF LINUX_RE(tag)
        THEN LinuxExpansion(tag.os, ParseU32(tag.major), ParseU32(tag.minor), tag.arch)
        ELSE IF MACOSX_RE(tag) /\ ParseU32(tag.major) >= 10
        THEN MacExpansion(ParseU32(tag.major), ParseU32(tag.minor), tag.arch)
        ELSE <<tag>>

(***************************************************************************)
(* PlatformImpl.  tag_map is a function from the tags present to their     *)
(* scores; an Option<i32> is the empty set or the set of one score.  The    *)
(* counter is an i32; the model stays far from i32::MIN.                   *)
(***************************************************************************)
empty == [tag_map |-> <<>>, tags |-> <<>>, counter |-> 0]

\* push as it would be without the contains_key test
push_unguarded(p, tag) ==
    [tag_map |-> (tag :> p.counter) @@ p.tag_map,
     tags |-> Append(p.tags, tag),
     counter |-> p.counter - 1]

push(p, tag) ==
    IF tag \notin DOMAIN p.tag_map
    THEN [tag_map |-> p.tag_map @@ (tag :> p.counter),
          tags |-> Append(p.tags, tag),
          counter |-> p.counter - 1]
    ELSE p

compatibility(p, tag) == IF tag \in DOMAIN p.tag_map THEN {p.tag_map[tag]} ELSE {}

\* the greatest element of a non-empty set of integers
Max(S) == CHOOSE x \in S : \A y \in S : y <= x

\* Platform::max_compatibility: filter_map(compatibility).max()
max_compatibility(p, tags) ==
    LET scores == UNION {compatibility(p, tags[i]) : i \in DOMAIN tags}
    IN  IF scores = {} THEN {} ELSE {Max(scores)}

\* for x in xs { p.push(x) }
RECURSIVE push_all(_, _)
push_all(p, xs) ==
    IF xs = <<>> THEN p
    ELSE IF Len(xs) = 1 THEN push(p, xs[1])
    ELSE LET q == push_all(p, FirstHalf(xs))
         \* the counter never grows: the test only makes TLC finish the first
         \* half before it starts the second
         IN  IF q.counter <= p.counter THEN push_all(q, SecondHalf(xs)) ELSE q

\* from_core_tags as it would be if it pushed the core tags themselves
from_core_tags_unexpanded(tags) == push_all(empty, tags)

\* PybiPlatform::from_core_tags
from_core_tags(tags) == push_all(empty, Concat([i \in DOMAIN tags |-> expand_platform_tag(tags[i])]))

(***************************************************************************)
(* compat_groups: a Result<Vec<String>>, here [ok, groups].                *)
(***************************************************************************)
Ok(groups) == [ok |-> TRUE, groups |-> groups]
Err == [ok |-> FALSE, groups |-> <<>>]

\* compat_groups as it would be if the fat "intel" binaries were taken to
\* run in both macOS processes, as universal2 does
compat_groups_intel_both(tag) ==
    IF tag.os = "win" THEN Ok(<<"win" \o tag.arch>>)
    ELSE IF MACOSX_RE(tag)
    THEN CASE tag.arch \in {"x86_64", "fat64", "fat3", "universal"} -> Ok(<<"macos-x86_64">>)
           [] tag.arch = "arm64" -> Ok(<<"macos-arm64">>)
           [] tag.arch \in {"universal2", "intel"} -> Ok(<<"macos-x86_64", "macos-arm64">>)
           [] OTHER -> Err
    ELSE IF LINUX_RE(tag) THEN Ok(<<tag.os \o "-" \o tag.arch>>)
    ELSE IF LEGACY_MANYLINUX_RE(tag) THEN Ok(<<"manylinux-" \o tag.arch>>)
    ELSE Err

compat_groups(tag) ==
    IF tag.os = "win" THEN Ok(<<"win" \o tag.arch>>)
    ELSE IF MACOSX_RE(tag)
    THEN CASE tag.arch \in {"x86_64", "intel", "fat64", "fat3", "universal"} -> Ok(<<"macos-x86_64">>)
           [] tag.arch = "arm64" -> Ok(<<"macos-arm64">>)
           [] tag.arch = "universal2" -> Ok(<<"macos-x86_64", "macos-arm64">>)
           [] OTHER -> Err
    ELSE IF LINUX_RE(tag) THEN Ok(<<tag.os \o "-" \o tag.arch>>)
    ELSE IF LEGACY_MANYLINUX_RE(tag) THEN Ok(<<"manylinux-" \o tag.arch>>)
    ELSE Err

(***************************************************************************)
(* PybiPlatform::wheel_platform_for_pybi.  A wheel tag (template) is the   *)
(* record [prefix, plat]: the text before its last "-" and the text after  *)
(* it, which is a platform tag or, in a template, the word PLATFORM.       *)
(***************************************************************************)
PLATFORM == RawTag("PLATFORM", NoDigits, NoDigits, "")

WheelTag(prefix, plat) == [prefix |-> prefix, plat |-> plat]

\* for tag in &name.arch_tags { groups.extend(compat_groups(tag)?) }
RECURSIVE ArchGroups(_, _)
ArchGroups(groups, arch_tags) ==
    IF arch_tags = <<>> THEN [ok |-> TRUE, groups |-> groups]
    ELSE LET cg == compat_groups(Head(arch_tags))
         IN  IF ~cg.ok THEN [ok |-> FALSE, groups |-> groups]
             ELSE ArchGroups(groups \cup Range(cg.groups), Tail(arch_tags))

\* the walk as it would be if it settled for any one of the groups
NarrowToAny(groups, tags) ==
    [ok |-> TRUE, groups |-> IF groups = {} THEN {} ELSE {CHOOSE g \in groups : TRUE}]

\* for tag in &self.0.tags { if groups.len() == 1 { break } ... groups.retain(..) }
RECURSIVE Narrow(_, _)
Narrow(groups, tags) ==
    IF tags = <<>> \/ Cardinality(groups) = 1 THEN [ok |-> TRUE, groups |-> groups]
    ELSE IF Len(tags) = 1
    THEN LET cg == compat_groups(tags[1])
         IN  IF ~cg.ok THEN [ok |-> FALSE, groups |-> groups]
             ELSE [ok |-> TRUE, groups |-> groups \cap Range(cg.groups)]
    ELSE LET first == Narrow(groups, FirstHalf(tags))
         IN  IF ~first.ok THEN first ELSE Narrow(first.groups, SecondHalf(tags))

\* the second loop as it would be without the test on the_group
SelectAll(tags, the_group) ==
    IF \E i \in DOMAIN tags : ~compat_groups(tags[i]).ok
    THEN [ok |-> FALSE, tags |-> <<>>]
    ELSE [ok |-> TRUE, tags |-> tags]

\* for tag in &self.0.tags { if compat_groups(tag)?.contains(&the_group) { platform_tags.push(tag) } }
SelectPlatformTags(tags, the_group) ==
    IF \E i \in DOMAIN tags : ~compat_groups(tags[i]).ok
    THEN [ok |-> FALSE, tags |-> <<>>]
    ELSE [ok |-> TRUE,
          tags |-> SelectSeq(tags, LAMBDA t : the_group \in Range(compat_groups(t).groups))]

\* the tags one template would contribute if -PLATFORM were not substituted
TemplateTagsVerbatim(template, platform_tags) == <<template>>

\* the tags one template contributes
TemplateTags(template, platform_tags) ==
    IF template.plat = PLATFORM
    THEN [i \in DOMAIN platform_tags |-> WheelTag(template.prefix, platform_tags[i])]
    ELSE <<template>>

BuildWheelPlatform(templates, platform_tags) ==
    push_all(empty, Concat([i \in DOMAIN templates |-> TemplateTags(templates[i], platform_tags)]))

\* the outcome of wheel_platform_for_pybi: status "ok", "err" (an Err is
\* returned) or "panic" (an assert! fails), with the locals as they are then
wheel_platform_for_pybi(self, arch_tags, templates) ==
    LET ag == ArchGroups({}, arch_tags)
        nw == Narrow(ag.groups, self.tags)
        the_group == CHOOSE g \in nw.groups : TRUE
        sel == SelectPlatformTags(self.tags, the_group)
        out(status, groups, platform_tags, wheel) ==
            [status |-> status, groups |-> groups, platform_tags |-> platform_tags, wheel |-> wheel]
    IN  IF ~ag.ok THEN out("err", ag.groups, <<>>, empty)
        ELSE IF ag.groups = {} THEN out("panic", ag.groups, <<>>, empty)
        ELSE IF ~nw.ok THEN out("err", nw.groups, <<>>, empty)
        ELSE IF Cardinality(nw.groups) # 1 THEN out("panic", nw.groups, <<>>, empty)
        ELSE IF ~sel.ok THEN out("err", nw.groups, <<>>, empty)
        ELSE out("ok", nw.groups, sel.tags, BuildWheelPlatform(templates, sel.tags))

(***************************************************************************)
(* WheelPlatform::infer_platform_machine.  The tags of a WheelPlatform are *)
(* whole wheel tags, and compat_groups is handed the whole text: the       *)
(* prefix, a "-", and the platform part.                                   *)
(***************************************************************************)
\* str::starts_with
starts_with(text, head) == Len(text) >= Len(head) /\ SubSeq(text, 1, Len(head)) = head

\* the text of a wheel tag up to and including the "-" before its platform part
TextUpToPlat(wheel_tag) == wheel_tag.prefix \o "-"

\* [a-zA-Z0-9_]*: the longest run from position `from` of a text that holds no "-"
WordFrom(text, from) ==
    LET stops == {i \in from..Len(text) : SubSeq(text, i, i) = "-"}
        stop == IF stops = {} THEN Len(text) + 1 ELSE CHOOSE i \in stops : \A j \in stops : i <= j
    IN  SubSeq(text, from, stop - 1)

\* compat_groups on the text of a wheel tag.  MACOSX_RE and LINUX_RE are
\* anchored at both ends and their last group admits no "-", so they match
\* only a text that is a platform tag and nothing else; LEGACY_MANYLINUX_RE
\* is anchored at the start alone.  A group of a "win" text is the text: the
\* record stands for it.
compat_groups_of_text(wheel_tag) ==
    LET text == TextUpToPlat(wheel_tag)
        bare == text = "-"
        heads == {h \in LegacyHeads : starts_with(text, h \o "_")}
        which == CHOOSE h \in heads : TRUE
    IN  IF starts_with(text, "win") THEN Ok(<<wheel_tag>>)
        ELSE IF bare /\ MACOSX_RE(wheel_tag.plat) THEN compat_groups(wheel_tag.plat)
        ELSE IF bare /\ LINUX_RE(wheel_tag.plat) THEN compat_groups(wheel_tag.plat)
        ELSE IF heads # {} THEN Ok(<<"manylinux-" \o WordFrom(text, Len(which) + 2)>>)
        ELSE Err

\* for tag in &self.0.tags { for compat_group in compat_groups(&tag).unwrap_or(vec![]) { .. } }
\* The Result is the empty set for bail!("can't infer platform_machine ..")
\* and the set of the one machine for Ok.
infer_platform_machine(self) ==
    LET groups == Concat([i \in DOMAIN self.tags |-> compat_groups_of_text(self.tags[i]).groups])
        macos == SelectSeq(groups, LAMBDA g : g \in {"macos-x86_64", "macos-arm64"})
    IN  IF macos = <<>> THEN {}
        ELSE IF macos[1] = "macos-x86_64" THEN {"x86_64"} ELSE {"arm64"}

(***************************************************************************)
(* src/resolve.rs.  A Version is a natural number, ordered as numbers are; *)
(* the odd ones are the pre-releases (1 is a release candidate of 2, 3 of  *)
(* 4).  An Option<T> is the empty set or the set of one T.  A Specifiers   *)
(* is a sequence of [op, version] clauses, satisfied by the versions that  *)
(* satisfy every clause.  A requires_python string of an ArtifactInfo is   *)
(* [valid, specs]: whether it parses as Specifiers, and what it parses to. *)
(***************************************************************************)
None == {}
Some(x) == {x}
Unwrap(o) == CHOOSE x \in o : TRUE

Versions == {1, 2, 3}
is_prerelease(version) == version % 2 = 1

Specifier(op, version) == [op |-> op, version |-> version]

SpecifierHolds(spec, version) ==
    CASE spec.op = ">=" -> version >= spec.version
      [] spec.op = "<" -> version < spec.version
      [] spec.op = "==" -> version = spec.version

satisfied_by(specs, version) == \A i \in DOMAIN specs : SpecifierHolds(specs[i], version)

\* AllowPre::Some(pkgs) and AllowPre::All
AllowPreSome(pkgs) == [all |-> FALSE, pkgs |-> pkgs]
AllowPreAll == [all |-> TRUE, pkgs |-> {}]

allow_pre_for(allow_pre, package) == allow_pre.all \/ package \in allow_pre.pkgs

(***************************************************************************)
(* AllowPre and serde.  AllowPre is serialized and deserialized through    *)
(* AllowPreSerdeHelper (serde's into / try_from).  A Document is a value   *)
(* as a data format hands it to serde: a sequence of package names, a      *)
(* string, or anything else.  A string arrives either lent from the input  *)
(* (visit_borrowed_str) or as a copy (visit_str / visit_string); which of  *)
(* the two is up to the data format and to how the input was given to it.  *)
(***************************************************************************)
HelperSome(pkgs) == [variant |-> "Some", pkgs |-> pkgs, text |-> ""]
HelperOther(text) == [variant |-> "Other", pkgs |-> {}, text |-> text]

SeqDocument(items) == [kind |-> "seq", items |-> items, text |-> ""]
StrDocument(text) == [kind |-> "str", items |-> <<>>, text |-> text]
OtherDocument == [kind |-> "other", items |-> <<>>, text |-> ""]

\* impl From<AllowPre> for AllowPreSerdeHelper
AllowPreSerdeHelper_from(value) ==
    IF value.all THEN HelperOther(":all:") ELSE HelperSome(value.pkgs)

\* impl TryFrom<AllowPreSerdeHelper> for AllowPre: a Result, here [ok, value]
try_from(helper) ==
    IF helper.variant = "Some" THEN [ok |-> TRUE, value |-> AllowPreSome(helper.pkgs)]
    ELSE IF helper.text = ":all:" THEN [ok |-> TRUE, value |-> AllowPreAll]
    ELSE [ok |-> FALSE, value |-> AllowPreSome({})]

\* the orders in which a HashSet may be iterated
IterationOrders(set) ==
    {order \in SeqsUpTo(set, Cardinality(set)) : Len(order) = Cardinality(set) /\ Range(order) = set}

\* #[derive(Serialize)] #[serde(untagged)] of the helper
serialize_helper(helper, order) ==
    IF helper.variant = "Some" THEN SeqDocument(order) ELSE StrDocument(helper.text)

\* Other(&'a str): a &str is deserialized from a lent string only
OtherVariant(document, lent) == document.kind = "str" /\ lent

\* #[derive(Deserialize)] #[serde(untagged)] of the helper: the first variant
\* that the buffered input matches, else an error
deserialize_helper(document, lent) ==
    IF document.kind = "seq" THEN [ok |-> TRUE, helper |-> HelperSome(Range(document.items))]
    ELSE IF OtherVariant(document, lent) THEN [ok |-> TRUE, helper |-> HelperOther(document.text)]
    ELSE [ok |-> FALSE, helper |-> HelperOther("")]

\* #[serde(into = "AllowPreSerdeHelper")]
serialize_allow_pre(value, order) == serialize_helper(AllowPreSerdeHelper_from(value), order)

\* #[serde(try_from = "AllowPreSerdeHelper")]
deserialize_allow_pre(document, lent) ==
    LET h == deserialize_helper(document, lent)
    IN  IF h.ok THEN try_from(h.helper) ELSE [ok |-> FALSE, value |-> AllowPreSome({})]

\* ArtifactName::Wheel(_) | ArtifactName::Pybi(_) | ArtifactName::Sdist(_)
ArtifactName(kind, arch_tags) == [kind |-> kind, arch_tags |-> arch_tags]

\* WheelCoreMetadata, as read out of a wheel
WheelCoreMetadata(requires_dist, requires_python, extras) ==
    [requires_dist |-> requires_dist, requires_python |-> requires_python, extras |-> extras]

\* the metadata of an artifact that declares nothing
NoCore == WheelCoreMetadata(<<>>, <<>>, {})

\* the url of an artifact is the pair of its version and its place among the
\* artifacts of that version; NoUrl until the artifact is published
NoUrl == <<0, 0>>

ArtifactInfo(name, url, hash, requires_python, yanked, core) ==
    [name |-> name, url |-> url, hash |-> hash, requires_python |-> requires_python,
     yanked |-> yanked, core |-> core]

PinnedPackage(name, version, hashes) == [name |-> name, version |-> version, hashes |-> hashes]

Blueprint(pybi, wheels) == [pybi |-> pybi, wheels |-> wheels]

(***************************************************************************)
(* The PackageDB is a function from package names to listings; a listing   *)
(* is a sequence of [version, ais] with one entry for each version.        *)
(***************************************************************************)
available_artifacts(db, package) == IF package \in DOMAIN db THEN db[package] ELSE <<>>

\* a Result<&[ArtifactInfo]>, here [ok, ais]
artifacts_for_version(db, package, version) ==
    LET artifacts == available_artifacts(db, package)
        found == {i \in DOMAIN artifacts : artifacts[i].version = version}
    IN  IF found = {} THEN [ok |-> FALSE, ais |-> <<>>]
        ELSE [ok |-> TRUE, ais |-> artifacts[CHOOSE i \in found : TRUE].ais]

(***************************************************************************)
(* VersionHints: a function from the hinted package names to               *)
(* [version, hashes].                                                      *)
(***************************************************************************)
VersionHints_new == <<>>

add_pinned(hints, pin) ==
    (pin.name :> [version |-> pin.version, hashes |-> Range(pin.hashes)]) @@ hints

RECURSIVE add_all_pinned(_, _)
add_all_pinned(hints, wheels) ==
    IF wheels = <<>> THEN hints
    ELSE add_all_pinned(add_pinned(hints, Head(wheels)[1]), Tail(wheels))

VersionHints_from(blueprint) ==
    add_all_pinned(add_pinned(VersionHints_new, blueprint.pybi), blueprint.wheels)

\* like.map(VersionHints::from).unwrap_or_else(VersionHints::new)
version_hints_of(like) == IF like = None THEN VersionHints_new ELSE VersionHints_from(Unwrap(like))

(***************************************************************************)
(* fetch_and_sort_versions: a Result<Vec<&Version>>, here [ok, versions].  *)
(***************************************************************************)
\* is_pinned as it would be if any hint for the package rescued a yanked artifact
is_pinned_any_hash(hash_hints, ai) == hash_hints # None

is_pinned(hash_hints, ai) ==
    hash_hints # None /\ ai.hash # None /\ Unwrap(ai.hash) \in Unwrap(hash_hints)

\* the inner loop over one version's artifacts: "push" when an artifact is
\* valid, "skip" when none is, "error" when a requires_python does not parse
RECURSIVE ScanArtifacts(_, _, _)
ScanArtifacts(ais, python_version, hash_hints) ==
    IF ais = <<>> THEN "skip"
    ELSE LET ai == Head(ais)
             rest == ScanArtifacts(Tail(ais), python_version, hash_hints)
         IN  IF ai.yanked /\ ~is_pinned(hash_hints, ai) THEN rest
             ELSE IF python_version # None /\ ai.requires_python # None
             THEN LET requires_python == Unwrap(ai.requires_python)
                  IN  IF ~requires_python.valid THEN "error"
                      ELSE IF ~satisfied_by(requires_python.specs, Unwrap(python_version)) THEN rest
                      ELSE "push"
             ELSE "push"

\* the sort key without the hint
SortKeyReverseOnly(version_hint, v) == <<0, 0 - v>>

\* (version_hint != Some(&v), Reverse(*v)); false sorts before true
SortKey(version_hint, v) == <<IF version_hint # Some(v) THEN 1 ELSE 0, 0 - v>>

KeyLess(k1, k2) == k1[1] < k2[1] \/ (k1[1] = k2[1] /\ k1[2] < k2[2])

\* the versions left in the order the PackageDB listed them
left_unsorted(versions, version_hint) == versions

RECURSIVE sort_unstable_by_key(_, _)
sort_unstable_by_key(versions, version_hint) ==
    IF versions = <<>> THEN <<>>
    ELSE LET least == CHOOSE i \in DOMAIN versions :
                          \A j \in DOMAIN versions :
                              ~KeyLess(SortKey(version_hint, versions[j]), SortKey(version_hint, versions[i]))
             others == [j \in 1..(Len(versions) - 1) |-> IF j < least THEN versions[j] ELSE versions[j + 1]]
         IN  <<versions[least]>> \o sort_unstable_by_key(others, version_hint)

fetch_and_sort_versions(db, brief, package, python_version, hints) ==
    LET artifacts == available_artifacts(db, package)
        allow_prerelease == allow_pre_for(brief.allow_pre, package)
        hint == IF package \in DOMAIN hints THEN Some(hints[package]) ELSE None
        version_hint == {h.version : h \in hint}
        hash_hints == {h.hashes : h \in hint}
        scan == [i \in DOMAIN artifacts |->
                    IF ~allow_prerelease /\ is_prerelease(artifacts[i].version) THEN "skip"
                    ELSE ScanArtifacts(artifacts[i].ais, python_version, hash_hints)]
        pushed == SelectSeq([i \in DOMAIN artifacts |-> i], LAMBDA i : scan[i] = "push")
        versions == [k \in DOMAIN pushed |-> artifacts[pushed[k]].version]
    IN  IF \E i \in DOMAIN artifacts : scan[i] = "error" THEN [ok |-> FALSE, versions |-> <<>>]
        ELSE [ok |-> TRUE, versions |-> sort_unstable_by_key(versions, version_hint)]

(***************************************************************************)
(* pick_best_pybi: an Option of the index of the chosen artifact.          *)
(***************************************************************************)
\* the filter_map: the indices of the PYBI artifacts the platform can run
Candidates(artifact_infos, platform) ==
    SelectSeq([i \in DOMAIN artifact_infos |-> i],
              LAMBDA i : /\ artifact_infos[i].name.kind = "pybi"
                         /\ max_compatibility(platform, artifact_infos[i].name.arch_tags) # None)

ScoreOf(artifact_infos, platform, i) == Unwrap(max_compatibility(platform, artifact_infos[i].name.arch_tags))

\* max_by_key as it would be if it returned the first of several maxima
max_by_key_first(artifact_infos, platform, cands) ==
    CHOOSE k \in DOMAIN cands :
        /\ \A j \in DOMAIN cands :
              ScoreOf(artifact_infos, platform, cands[j]) <= ScoreOf(artifact_infos, platform, cands[k])
        /\ \A j \in 1..(k - 1) :
              ScoreOf(artifact_infos, platform, cands[j]) < ScoreOf(artifact_infos, platform, cands[k])

\* Iterator::max_by_key: of several maxima the last one is returned
max_by_key(artifact_infos, platform, cands) ==
    CHOOSE k \in DOMAIN cands :
        /\ \A j \in DOMAIN cands :
              ScoreOf(artifact_infos, platform, cands[j]) <= ScoreOf(artifact_infos, platform, cands[k])
        /\ \A j \in (k + 1)..Len(cands) :
              ScoreOf(artifact_infos, platform, cands[j]) < ScoreOf(artifact_infos, platform, cands[k])

pick_best_pybi(artifact_infos, platform) ==
    LET cands == Candidates(artifact_infos, platform)
    IN  IF cands = <<>> THEN None ELSE Some(cands[max_by_key(artifact_infos, platform, cands)])

(***************************************************************************)
(* resolve_pybi: [ok, version, index], the chosen artifact being the       *)
(* index-th artifact of the version.                                       *)
(***************************************************************************)
RECURSIVE FirstWithPybi(_, _, _, _)
FirstWithPybi(db, brief, platform, versions) ==
    IF versions = <<>> THEN [ok |-> FALSE, version |-> 0, index |-> 0]
    ELSE LET version == Head(versions)
             artifact_infos == artifacts_for_version(db, brief.python.name, version)
             best == pick_best_pybi(artifact_infos.ais, platform)
         IN  IF satisfied_by(brief.python.specifiers, version)
             THEN IF ~artifact_infos.ok THEN [ok |-> FALSE, version |-> 0, index |-> 0]
                  ELSE IF best # None THEN [ok |-> TRUE, version |-> version, index |-> Unwrap(best)]
                  ELSE FirstWithPybi(db, brief, platform, Tail(versions))
             ELSE FirstWithPybi(db, brief, platform, Tail(versions))

resolve_pybi(db, brief, platform, hints) ==
    LET versions == fetch_and_sort_versions(db, brief, brief.python.name, None, hints)
    IN  IF ~versions.ok THEN [ok |-> FALSE, version |-> 0, index |-> 0]
        ELSE FirstWithPybi(db, brief, platform, versions.versions)

(***************************************************************************)
(* The dependency provider.  A ResPkg is [kind, name, extra]; a            *)
(* Range<Version> is the set of the versions in it; a                      *)
(* DependencyConstraints is a function from ResPkgs to ranges; an          *)
(* environment is a function from marker variable names to strings.        *)
(***************************************************************************)
Root == [kind |-> "root", name |-> "", extra |-> None]
Package(name, extra) == [kind |-> "package", name |-> name, extra |-> extra]

ROOT_VERSION == 0

RangeAny == Versions \cup {ROOT_VERSION}

Requirement(name, extras, specifiers, env_marker_expr) ==
    [name |-> name, extras |-> extras, specifiers |-> specifiers, env_marker_expr |-> env_marker_expr]

\* the marker expression  var == "value"
Marker(var, value) == [var |-> var, value |-> value]

\* str::parse::<Version>() on the strings the model's environments hold
ParseVersion(str) ==
    CASE str = "1" -> Some(1)
      [] str = "2" -> Some(2)
      [] str = "3" -> Some(3)
      [] OTHER -> None

get_marker_var(basic_env, extra, var) ==
    IF var = "extra" THEN Some(IF extra = None THEN "" ELSE Unwrap(extra))
    ELSE IF var \in DOMAIN basic_env THEN Some(basic_env[var])
    ELSE None

\* expr.eval(&env): a Result<bool>, here [ok, value]
eval(expr, basic_env, extra) ==
    LET looked_up == get_marker_var(basic_env, extra, expr.var)
    IN  IF looked_up = None THEN [ok |-> FALSE, value |-> FALSE]
        ELSE [ok |-> TRUE, value |-> Unwrap(looked_up) = expr.value]

\* spec.to_ranges() folded with union: the versions one clause admits
to_ranges(spec) == {v \in RangeAny : SpecifierHolds(spec, v)}

RECURSIVE specifiers_to_pubgrub(_)
specifiers_to_pubgrub(specs) ==
    IF specs = <<>> THEN RangeAny
    ELSE specifiers_to_pubgrub(SubSeq(specs, 1, Len(specs) - 1)) \cap to_ranges(specs[Len(specs)])

\* for maybe_extra in maybe_extras { dc.insert(Package(name, maybe_extra), range) }
RECURSIVE insert_each(_, _, _, _)
insert_each(dc, name, maybe_extras, range) ==
    IF maybe_extras = <<>> THEN dc
    ELSE insert_each((Package(name, Head(maybe_extras)) :> range) @@ dc, name, Tail(maybe_extras), range)

\* a Result<()> and the dc it leaves behind, here [ok, dc]
RECURSIVE requirements_to_pubgrub(_, _, _, _)
requirements_to_pubgrub(basic_env, reqs, dc, extra) ==
    IF reqs = <<>> THEN [ok |-> TRUE, dc |-> dc]
    ELSE LET req == Head(reqs)
             marker == IF req.env_marker_expr = None THEN [ok |-> TRUE, value |-> TRUE]
                       ELSE eval(Unwrap(req.env_marker_expr), basic_env, extra)
             maybe_extras == IF req.extras = <<>> THEN <<None>>
                             ELSE [i \in DOMAIN req.extras |-> Some(req.extras[i])]
             range == specifiers_to_pubgrub(req.specifiers)
         IN  IF ~marker.ok THEN [ok |-> FALSE, dc |-> dc]
             ELSE IF ~marker.value THEN requirements_to_pubgrub(basic_env, Tail(reqs), dc, extra)
             ELSE requirements_to_pubgrub(basic_env, Tail(reqs),
                                          insert_each(dc, req.name, maybe_extras, range), extra)

(***************************************************************************)
(* PubgrubState and its two caches.  The PackageDB reads the metadata of   *)
(* the choice-th of the artifacts it is given, or fails when that is not   *)
(* a wheel.                                                                *)
(***************************************************************************)
PubgrubState(db, env, brief, version_hints, python_full_version) ==
    [db |-> db, env |-> env, brief |-> brief, version_hints |-> version_hints,
     python_full_version |-> python_full_version, expected_metadata |-> <<>>, versions |-> <<>>]

get_metadata(ais, choice) ==
    IF choice \in DOMAIN ais /\ ais[choice].name.kind = "wheel"
    THEN [ok |-> TRUE, ai |-> Some(ais[choice])]
    ELSE [ok |-> FALSE, ai |-> None]

WheelResolveMetadataInner(m) ==
    [requires_dist |-> m.requires_dist, requires_python |-> m.requires_python, extras |-> m.extras]

WheelResolveMetadata_from(ai, m) == [provenance |-> ai.url, inner |-> WheelResolveMetadataInner(m)]

\* metadata as it would be if it read the PackageDB whatever the cache holds
metadata_uncached(self, release, choice) ==
    LET ais == artifacts_for_version(self.db, release[1], release[2])
        read == get_metadata(ais.ais, choice)
        filled == WheelResolveMetadata_from(Unwrap(read.ai), Unwrap(read.ai).core)
    IN  IF ~ais.ok \/ ~read.ok
        THEN [ok |-> FALSE, self |-> self, inner |-> NoCore]
        ELSE [ok |-> TRUE,
              self |-> [self EXCEPT !.expected_metadata = (release :> filled) @@ self.expected_metadata],
              inner |-> filled.inner]

\* PubgrubState::metadata: [ok, self, inner]
metadata(self, release, choice) ==
    LET ais == artifacts_for_version(self.db, release[1], release[2])
        read == get_metadata(ais.ais, choice)
        filled == WheelResolveMetadata_from(Unwrap(read.ai), Unwrap(read.ai).core)
    IN  IF release \in DOMAIN self.expected_metadata
        THEN [ok |-> TRUE, self |-> self, inner |-> self.expected_metadata[release].inner]
        ELSE IF ~ais.ok \/ ~read.ok
        THEN [ok |-> FALSE, self |-> self, inner |-> NoCore]
        ELSE [ok |-> TRUE,
              self |-> [self EXCEPT !.expected_metadata = (release :> filled) @@ self.expected_metadata],
              inner |-> filled.inner]

\* PubgrubState::versions: [ok, self, versions]
versions(self, package) ==
    LET fetched == fetch_and_sort_versions(self.db, self.brief, package, Some(self.python_full_version),
                                           self.version_hints)
    IN  IF package \in DOMAIN self.versions
        THEN [ok |-> TRUE, self |-> self, versions |-> self.versions[package]]
        ELSE IF ~fetched.ok THEN [ok |-> FALSE, self |-> self, versions |-> <<>>]
        ELSE [ok |-> TRUE, self |-> [self EXCEPT !.versions = (package :> fetched.versions) @@ self.versions],
              versions |-> fetched.versions]

\* the test of choose_package_version as it would be if it let every
\* version through
requires_python_unchecked(inner, python_full_version) == FALSE

\* !metadata.requires_python.satisfied_by(&self.python_full_version)?
bad_requires_python(inner, python_full_version) == ~satisfied_by(inner.requires_python, python_full_version)

\* choose_package_version as it would be if it took the last version in range
choose_last_in_range(self, respkg, range, choice) ==
    LET out(ok, error, state, version) == [ok |-> ok, error |-> error, self |-> state, version |-> version]
    IN  IF respkg = Root THEN out(TRUE, "", self, Some(ROOT_VERSION))
        ELSE LET listed == versions(self, respkg.name)
                 in_range == SelectSeq(listed.versions, LAMBDA v : v \in range)
                 md == metadata(listed.self, <<respkg.name, in_range[Len(in_range)]>>, choice)
             IN  IF ~listed.ok THEN out(FALSE, "versions", listed.self, None)
                 ELSE IF in_range = <<>> THEN out(TRUE, "", listed.self, None)
                 ELSE IF ~md.ok THEN out(FALSE, "metadata", md.self, None)
                 ELSE IF bad_requires_python(md.inner, self.python_full_version)
                 THEN out(FALSE, "bad requires-python", md.self, None)
                 ELSE out(TRUE, "", md.self, Some(in_range[Len(in_range)]))

\* a Result<(T, Option<Version>)>, here [ok, error, self, version]; error
\* names the `?` or the Err(..) that ended the call
choose_package_version(self, respkg, range, choice) ==
    LET out(ok, error, state, version) == [ok |-> ok, error |-> error, self |-> state, version |-> version]
    IN  IF respkg = Root THEN out(TRUE, "", self, Some(ROOT_VERSION))
        ELSE LET listed == versions(self, respkg.name)
                 in_range == SelectSeq(listed.versions, LAMBDA v : v \in range)
                 md == metadata(listed.self, <<respkg.name, in_range[1]>>, choice)
             IN  IF ~listed.ok THEN out(FALSE, "versions", listed.self, None)
                 ELSE IF in_range = <<>> THEN out(TRUE, "", listed.self, None)
                 ELSE IF ~md.ok THEN out(FALSE, "metadata", md.self, None)
                 ELSE IF bad_requires_python(md.inner, self.python_full_version)
                 THEN out(FALSE, "bad requires-python", md.self, None)
                 ELSE out(TRUE, "", md.self, Some(in_range[1]))

\* get_dependencies as it would be without the self-edge
get_dependencies_no_self_edge(self, pkg, version, choice) ==
    LET out(ok, error, state, dc) == [ok |-> ok, error |-> error, self |-> state, dc |-> dc]
    IN  IF pkg = Root
        THEN LET lowered == requirements_to_pubgrub(self.env, self.brief.requirements, <<>>, None)
             IN  out(lowered.ok, IF lowered.ok THEN "" ELSE "lowering", self, lowered.dc)
        ELSE LET md == metadata(self, <<pkg.name, version>>, choice)
                 lowered == requirements_to_pubgrub(self.env, md.inner.requires_dist, <<>>, pkg.extra)
             IN  IF ~md.ok THEN out(FALSE, "metadata", md.self, <<>>)
                 ELSE IF ~lowered.ok THEN out(FALSE, "lowering", md.self, <<>>)
                 ELSE IF pkg.extra = None THEN out(TRUE, "", md.self, lowered.dc)
                 ELSE IF Unwrap(pkg.extra) \notin md.inner.extras
                 THEN out(FALSE, "missing extra", md.self, <<>>)
                 ELSE out(TRUE, "", md.self, lowered.dc)

\* a Result<Dependencies>, here [ok, error, self, dc]; error names the `?`
\* or the Err(..) that ended the call
get_dependencies(self, pkg, version, choice) ==
    LET out(ok, error, state, dc) == [ok |-> ok, error |-> error, self |-> state, dc |-> dc]
    IN  IF pkg = Root
        THEN LET lowered == requirements_to_pubgrub(self.env, self.brief.requirements, <<>>, None)
             IN  out(lowered.ok, IF lowered.ok THEN "" ELSE "lowering", self, lowered.dc)
        ELSE LET md == metadata(self, <<pkg.name, version>>, choice)
                 lowered == requirements_to_pubgrub(self.env, md.inner.requires_dist, <<>>, pkg.extra)
             IN  IF ~md.ok THEN out(FALSE, "metadata", md.self, <<>>)
                 ELSE IF ~lowered.ok THEN out(FALSE, "lowering", md.self, <<>>)
                 ELSE IF pkg.extra = None THEN out(TRUE, "", md.self, lowered.dc)
                 ELSE IF Unwrap(pkg.extra) \notin md.inner.extras
                 THEN out(FALSE, "missing extra", md.self, <<>>)
                 ELSE out(TRUE, "", md.self, (Package(pkg.name, None) :> {version}) @@ lowered.dc)

(***************************************************************************)
(* resolve_wheels, after the solver has returned Ok(solution): the         *)
(* filter_map over the entries of the solution, in the order the map       *)
(* yields them.                                                            *)
(***************************************************************************)
\* the closure as it would be if it kept the virtual extra packages too
keep_every_package(self, entry) ==
    IF entry.pkg.kind = "root" THEN None
    ELSE Some(<<entry.pkg.name, entry.version, self.expected_metadata[<<entry.pkg.name, entry.version>>]>>)

\* the closure of the filter_map: Root and Package(_, Some(_)) give None
keep_base_package(self, entry) ==
    IF entry.pkg.kind = "root" THEN None
    ELSE IF entry.pkg.extra # None THEN None
    ELSE Some(<<entry.pkg.name, entry.version, self.expected_metadata[<<entry.pkg.name, entry.version>>]>>)

RECURSIVE filter_map(_, _)
filter_map(self, entries) ==
    IF entries = <<>> THEN <<>>
    ELSE LET kept == keep_base_package(self, Head(entries))
         IN  (IF kept = None THEN <<>> ELSE <<Unwrap(kept)>>) \o filter_map(self, Tail(entries))

\* pinned(db, name, version): the hashes of the version's artifacts that have one
pinned(db, name, version) ==
    LET ais == artifacts_for_version(db, name, version).ais
        hashed == SelectSeq(ais, LAMBDA ai : ai.hash # None)
    IN  PinnedPackage(name, version, [i \in DOMAIN hashed |-> Unwrap(hashed[i].hash)])

\* Brief::resolve: for (p, v, em) in resolved_wheels { wheels.push((pinned(&db, p, v)?, em)) }
pin_wheels(db, resolved_wheels) ==
    [i \in DOMAIN resolved_wheels |->
        <<pinned(db, resolved_wheels[i][1], resolved_wheels[i][2]), resolved_wheels[i][3]>>]

(***************************************************************************)
(* src/seek_slice.rs.  A u64 is a number in 0..U64Max and an i64 a number  *)
(* in I64Min..I64Max, of WordBits bits each.  The reader inside the slice  *)
(* is a std::io::Cursor over the bytes 0, 1, 2, ... as in test_seek_slice: *)
(* [len, pos], whose byte at index i is i.  A build either checks integer  *)
(* overflow (overflow_checks, the default of a debug build) or wraps.      *)
(***************************************************************************)
WordBits == 4
U64Max == 2 ^ WordBits - 1
I64Min == -(2 ^ (WordBits - 1))
I64Max == 2 ^ (WordBits - 1) - 1

Min(a, b) == IF a <= b THEN a ELSE b

Cursor(len) == [len |-> len, pos |-> 0]

\* Cursor::seek(SeekFrom::Start(n)): any position is accepted
Cursor_seek(cursor, n) == [cursor EXCEPT !.pos = n]

\* Cursor::read into a buffer of `size` bytes: the bytes read
Cursor_read(cursor, size) ==
    LET left == IF cursor.pos < cursor.len THEN cursor.len - cursor.pos ELSE 0
    IN  [k \in 1..Min(size, left) |-> cursor.pos + k - 1]

SeekFrom(whence, amount) == [whence |-> whence, amount |-> amount]

\* SeekSlice::new: status "ok" or "panic" (assert!(end >= start))
SeekSlice_new(inner, start, end) ==
    IF ~(end >= start)
    THEN [status |-> "panic", slice |-> [inner |-> inner, start |-> start, end |-> end, current |-> 0]]
    ELSE [status |-> "ok",
          slice |-> [inner |-> Cursor_seek(inner, start), start |-> start, end |-> end,
                     current |-> start]]

checked_add(a, b) == IF a + b <= U64Max THEN Some(a + b) ELSE None
checked_sub(a, b) == IF a >= b THEN Some(a - b) ELSE None

\* checked_add_signed: [panic, value].  b.abs() overflows on i64::MIN: a
\* build with overflow checks panics, any other build wraps to i64::MIN,
\* which `as u64` is 2^(WordBits - 1)
checked_add_signed(a, b, overflow_checks) ==
    IF b >= 0 THEN [panic |-> FALSE, value |-> checked_add(a, b)]
    ELSE IF b = I64Min
    THEN IF overflow_checks THEN [panic |-> TRUE, value |-> None]
         ELSE [panic |-> FALSE, value |-> checked_sub(a, 2 ^ (WordBits - 1))]
    ELSE [panic |-> FALSE, value |-> checked_sub(a, -b)]

\* SeekSlice::seek: status "ok" (value is the Ok(u64)), "err" or "panic"
seek(self, pos, overflow_checks) ==
    LET maybe_goal_idx ==
            CASE pos.whence = "Start" -> [panic |-> FALSE, value |-> checked_add(self.start, pos.amount)]
              [] pos.whence = "End" -> checked_add_signed(self.end, pos.amount, overflow_checks)
              [] pos.whence = "Current" -> checked_add_signed(self.current, pos.amount, overflow_checks)
        out(status, slice, value) == [status |-> status, slice |-> slice, value |-> value]
    IN  IF maybe_goal_idx.panic THEN out("panic", self, 0)
        ELSE IF maybe_goal_idx.value = None THEN out("err", self, 0)
        ELSE LET goal_idx == Unwrap(maybe_goal_idx.value)
             IN  IF goal_idx < self.start \/ goal_idx >= self.end THEN out("err", self, 0)
                 ELSE out("ok",
                          [self EXCEPT !.inner = Cursor_seek(self.inner, goal_idx), !.current = goal_idx],
                          goal_idx - self.start)

\* read as it would be if it handed the whole buffer to the reader
read_whole_buffer(self, buf_len) ==
    LET bytes == Cursor_read(self.inner, buf_len)
        amount == Len(bytes)
    IN  [slice |-> [self EXCEPT !.inner = Cursor_seek(self.inner, self.inner.pos + amount),
                                !.current = self.current + amount],
         bytes |-> bytes]

\* SeekSlice::read into a buffer of buf_len bytes: the slice after it and the bytes read
read(self, buf_len) ==
    LET max_read == self.end - self.current
        read_size == Min(max_read, buf_len)
        bytes == Cursor_read(self.inner, read_size)
        amount == Len(bytes)
    IN  [slice |-> [self EXCEPT !.inner = Cursor_seek(self.inner, self.inner.pos + amount),
                                !.current = self.current + amount],
         bytes |-> bytes]

(***************************************************************************)
(* The tags handed to expand_platform_tag in SpecExpand.                   *)
(***************************************************************************)
LinuxArches == {"x86_64", "aarch64"}
MacArchNames == {"x86_64", "arm64", "universal2", "ppc64"}

\* decimal numbers as they may be written: canonical, or with a leading zero
Written(lo, hi) == {FormatU32(n) : n \in lo..hi} \cup {<<0>> \o FormatU32(n) : n \in {2, 5}}

MacInputs ==
    {RawTag("macosx", FormatU32(M), FormatU32(m), a) : M \in 9..MaxMacMajor, m \in 0..MaxMacMinor,
                                                       a \in MacArchNames}

ExpandInputs ==
    MacInputs
    \cup {RawTag(os, M, m, a) : os \in {"manylinux", "musllinux"},
                                M \in Written(1, 3), m \in Written(0, MaxLinuxMinor), a \in LinuxArches}
    \cup {FormatLegacy(os, a) : os \in LegacyHeads, a \in LinuxArches}
    \cup {RawTag("macosx", <<1, 0>>, <<0, 5>>, "arm64"),
          WinTag("32"), WinTag("_amd64"), OtherTag("linux_x86_64"), OtherTag("any")}

\* the value of the variables a specification does not use
Idle == [pc |-> "idle"]

\* each variable before its first call, from which the Init of its
\* specification starts
XpIdle == [pc |-> "idle", tag |-> OtherTag("any"), out |-> <<>>]
PsIdle == [pc |-> "idle", p |-> empty, before |-> empty, last |-> OtherTag("any"), calls |-> 0]
PfIdle ==
    [pc |-> "idle", core |-> <<>>, pybi |-> empty, arch_tags |-> <<>>, templates |-> <<>>,
     status |-> "none", groups |-> {}, platform_tags |-> <<>>, wheel |-> empty,
     platform_machine |-> {}]

NoSlice == [inner |-> Cursor(0), start |-> 0, end |-> 0, current |-> 0]

NoCall == [op |-> "none", pos |-> SeekFrom("Start", 0), status |-> "none", value |-> 0, bytes |-> <<>>]

SkIdle == [pc |-> "idle", overflow_checks |-> FALSE, slice |-> NoSlice, before |-> NoSlice, last |-> NoCall]

ApIdle ==
    [pc |-> "idle", origin |-> "none", value |-> AllowPreSome({}), document |-> OtherDocument,
     lent |-> FALSE, result |-> [ok |-> FALSE, value |-> AllowPreSome({})]]

(***************************************************************************)
(* SpecVersions: one call of fetch_and_sort_versions for the package "a".  *)
(***************************************************************************)
WheelArtifact(hash, requires_python, yanked) ==
    ArtifactInfo(ArtifactName("wheel", <<>>), NoUrl, hash, requires_python, yanked, NoCore)

\* requires_python strings: one that admits the Python version 2, one that
\* does not, one that does not parse
RequiresPythonOk == [valid |-> TRUE, specs |-> <<Specifier(">=", 2)>>]
RequiresPythonBad == [valid |-> TRUE, specs |-> <<Specifier(">=", 3)>>]
RequiresPythonInvalid == [valid |-> FALSE, specs |-> <<>>]

VersionArtifacts ==
    {WheelArtifact(Some("h2"), None, FALSE),
     WheelArtifact(Some("h2"), None, TRUE),
     WheelArtifact(Some("h1"), Some(RequiresPythonBad), FALSE),
     WheelArtifact(Some("h1"), Some(RequiresPythonOk), TRUE),
     WheelArtifact(None, Some(RequiresPythonInvalid), FALSE)}

\* the listings of the versions in V, each with artifacts from A, of at
\* most n artifacts in all; the versions come in any order
Published(v, ais) == [version |-> v, ais |-> [i \in DOMAIN ais |-> [ais[i] EXCEPT !.url = <<v, i>>]]]

RECURSIVE Listings(_, _, _)
Listings(V, A, n) ==
    {<<>>} \cup UNION {{<<Published(v, ais)>> \o rest : rest \in Listings(V \ {v}, A, n - Len(ais))}
                       : v \in V, ais \in SeqsUpTo(A, n) \ {<<>>}}

NoMetadata == [provenance |-> NoUrl, inner |-> NoCore]

\* a prior Blueprint: none, one that pins the package at the pre-release 1
\* with the hash h1, or one with two pins of the package, the later of them
\* at the release 2 with the hash h1
Likes(package) ==
    {None,
     Some(Blueprint(PinnedPackage("cpython", 2, <<>>),
                    <<<<PinnedPackage(package, 1, <<"h1">>), NoMetadata>>>>)),
     Some(Blueprint(PinnedPackage("cpython", 2, <<>>),
                    <<<<PinnedPackage(package, 1, <<"h2">>), NoMetadata>>,
                      <<PinnedPackage(package, 2, <<"h1">>), NoMetadata>>>>))}

Brief(python, requirements, allow_pre) ==
    [python |-> python, requirements |-> requirements, allow_pre |-> allow_pre]

AnyPython == [name |-> "cpython", specifiers |-> <<>>]

VsIdle ==
    [pc |-> "idle", db |-> <<>>, brief |-> Brief(AnyPython, <<>>, AllowPreAll), python_version |-> None,
     like |-> None, result |-> [ok |-> FALSE, versions |-> <<>>]]

PbIdle ==
    [pc |-> "idle", db |-> <<>>, brief |-> Brief(AnyPython, <<>>, AllowPreAll), platform |-> empty,
     like |-> None, versions |-> [ok |-> FALSE, versions |-> <<>>],
     result |-> [ok |-> FALSE, version |-> 0, index |-> 0]]

(***************************************************************************)
(* SpecResolve: resolve_wheels for a Brief over the packages "a" and "b".  *)
(* pubgrub::solver::resolve is the loop of the actions                     *)
(* ChoosePackageVersion and GetDependencies: it keeps the decisions made   *)
(* so far and the dependencies it was given for them, offers the           *)
(* undecided packages those dependencies name, and takes back its last     *)
(* decision when a package has no candidate left.                          *)
(***************************************************************************)
ReqA == Requirement("a", <<>>, <<>>, None)
ReqAx == Requirement("a", <<"x">>, <<>>, None)
ReqA1 == Requirement("a", <<>>, <<Specifier("==", 1)>>, None)
ReqB == Requirement("b", <<>>, <<>>, None)
ReqBlt2 == Requirement("b", <<>>, <<Specifier("<", 2)>>, None)
ReqBifx == Requirement("b", <<>>, <<Specifier(">=", 2)>>, Some(Marker("extra", "x")))
ReqBifArm == Requirement("b", <<>>, <<>>, Some(Marker("platform_machine", "arm64")))
ReqANone == Requirement("a", <<>>, <<Specifier(">=", 2), Specifier("<", 2)>>, None)

Wheel(core) == ArtifactInfo(ArtifactName("wheel", <<>>), NoUrl, Some("h1"), None, FALSE, core)

WheelsOfA ==
    {Wheel(WheelCoreMetadata(<<ReqBifx>>, <<Specifier(">=", 2)>>, {"x"})),
     Wheel(WheelCoreMetadata(<<ReqBlt2>>, <<>>, {})),
     Wheel(WheelCoreMetadata(<<>>, <<Specifier(">=", 3)>>, {"x"}))}

WheelsOfB ==
    {Wheel(WheelCoreMetadata(<<>>, <<>>, {})),
     Wheel(WheelCoreMetadata(<<ReqA1>>, <<>>, {})),
     Wheel(WheelCoreMetadata(<<ReqB>>, <<>>, {}))}

RootRequirements ==
    {<<ReqA>>, <<ReqAx>>, <<ReqAx, ReqB>>, <<ReqA, ReqB>>, <<ReqA1, ReqA>>, <<ReqBifArm, ReqA>>,
     <<ReqANone>>}

Envs ==
    {("python_full_version" :> "2") @@ ("platform_machine" :> "x86_64"),
     ("platform_machine" :> "x86_64")}

\* the listings of Listings whose versions ascend
RECURSIVE SortedListings(_, _, _)
SortedListings(V, A, n) ==
    {<<>>} \cup UNION {{<<Published(v, ais)>> \o rest
                          : rest \in SortedListings({w \in V : w > v}, A, n - Len(ais))}
                       : v \in V, ais \in SeqsUpTo(A, n) \ {<<>>}}

RECURSIVE CountArtifacts(_)
CountArtifacts(listing) ==
    IF listing = <<>> THEN 0 ELSE Len(Head(listing).ais) + CountArtifacts(Tail(listing))

RsIdle ==
    [pc |-> "idle",
     self |-> PubgrubState(<<>>, <<>>, Brief(AnyPython, <<>>, AllowPreAll), VersionHints_new, ROOT_VERSION),
     decisions |-> <<>>, deps |-> <<>>, excluded |-> {}, next |-> [pkg |-> Root, version |-> ROOT_VERSION],
     fills |-> <<>>, solution |-> <<>>, wheels |-> <<>>, error |-> ""]

\* the record of a call on the DependencyProvider: what was asked, the
\* PubgrubState it was asked of, and the answer
NoProviderCall ==
    [op |-> "none", pkg |-> Root, range |-> {}, version |-> ROOT_VERSION, before |-> RsIdle.self,
     ok |-> FALSE, error |-> "", chosen |-> None, dc |-> <<>>]


ExpandInit ==
    /\ \/ xp \in {[pc |-> "call", tag |-> t, out |-> <<>>] : t \in MacInputs}
       \/ xp \in {[pc |-> "call", tag |-> t, out |-> <<>>] : t \in ExpandInputs \ MacInputs}
    /\ ps = Idle
    /\ pf = Idle
    /\ fsv = Idle
    /\ pb = Idle
    /\ rs = Idle
    /\ ap = Idle
    /\ sk = Idle
    /\ dp = Idle

\* one call of expand_platform_tag(xp.tag)
Expand ==
    /\ xp.pc = "call"
    /\ xp' = [xp EXCEPT !.pc = "done", !.out = expand_platform_tag(xp.tag)]
    /\ UNCHANGED <<ps, pf, fsv, pb, rs, ap, sk, dp>>

SpecExpand == ExpandInit /\ [][Expand]_vars

(***************************************************************************)
(* SpecGroups: one call of compat_groups.                                  *)
(***************************************************************************)
FatArches == {"intel", "fat64", "fat3", "universal"}

GroupInputs ==
    ExpandInputs
    \cup {RawTag("macosx", <<1, 0>>, FormatU32(m), a) : m \in 0..MaxMacMinor, a \in FatArches}

GroupsInit ==
    /\ xp \in {[pc |-> "groups", tag |-> t, out |-> Err] : t \in GroupInputs}
    /\ ps = Idle
    /\ pf = Idle
    /\ fsv = Idle
    /\ pb = Idle
    /\ rs = Idle
    /\ ap = Idle
    /\ sk = Idle
    /\ dp = Idle

\* one call of compat_groups(xp.tag)
CompatGroups ==
    /\ xp.pc = "groups"
    /\ xp' = [xp EXCEPT !.pc = "grouped", !.out = compat_groups(xp.tag)]
    /\ UNCHANGED <<ps, pf, fsv, pb, rs, ap, sk, dp>>

SpecGroups == GroupsInit /\ [][CompatGroups]_vars

(***************************************************************************)
(* SpecPush: a PlatformImpl under any sequence of push calls.              *)
(***************************************************************************)
PushTags ==
    {RawTag("manylinux", <<2>>, <<1, 7>>, "x86_64"), FormatLegacy("manylinux2014", "x86_64"),
     RawTag("macosx", <<1, 1>>, <<0>>, "arm64"), WinTag("32")}

PushInit ==
    /\ ps = [PsIdle EXCEPT !.pc = "push"]
    /\ xp = Idle
    /\ pf = Idle
    /\ fsv = Idle
    /\ pb = Idle
    /\ rs = Idle
    /\ ap = Idle
    /\ sk = Idle
    /\ dp = Idle

\* p.push(tag); ps.before is the PlatformImpl as it was when push was called
Push ==
    /\ ps.pc = "push"
    /\ ps.calls < MaxPushes
    /\ \E tag \in PushTags :
          ps' = [ps EXCEPT !.p = push(ps.p, tag), !.before = ps.p, !.last = tag,
                           !.calls = ps.calls + 1]
    /\ UNCHANGED <<xp, pf, fsv, pb, rs, ap, sk, dp>>

SpecPush == PushInit /\ [][Push]_vars

(***************************************************************************)
(* SpecPlatform: PybiPlatform::from_core_tags, then wheel_platform_for_pybi *)
(* for a PYBI name and its metadata.                                       *)
(***************************************************************************)
CoreTags ==
    {FormatLegacy("manylinux2014", "x86_64"), RawTag("musllinux", <<1>>, <<3>>, "x86_64"),
     RawTag("macosx", <<1, 1>>, <<0>>, "arm64"), RawTag("macosx", <<1, 1>>, <<0>>, "x86_64"),
     RawTag("macosx", <<1, 0>>, <<2>>, "universal2"), OtherTag("linux_x86_64")}

PybiArchTags ==
    {RawTag("macosx", <<1, 0>>, <<1, 5>>, "universal2"), RawTag("macosx", <<1, 0>>, <<1, 5>>, "x86_64"),
     RawTag("macosx", <<1, 1>>, <<0>>, "arm64"), RawTag("manylinux", <<2>>, <<1, 7>>, "x86_64"),
     OtherTag("any")}

PybiArchTagLists == {<<>>} \cup {<<a>> : a \in PybiArchTags} \cup {<<a, b>> : a, b \in PybiArchTags}

TemplateLists ==
    {<<WheelTag("foo-bar", PLATFORM), WheelTag("foo-none", OtherTag("any")), WheelTag("foo-baz", PLATFORM)>>,
     <<WheelTag("foo-bar", RawTag("macosx", <<1, 0>>, <<0>>, "x86_64")), WheelTag("foo-bar", PLATFORM)>>}

PlatformInit ==
    /\ pf \in {[PfIdle EXCEPT !.pc = "core", !.core = c] : c \in SeqsUpTo(CoreTags, MaxCoreTags)}
    /\ xp = Idle
    /\ ps = Idle
    /\ fsv = Idle
    /\ pb = Idle
    /\ rs = Idle
    /\ ap = Idle
    /\ sk = Idle
    /\ dp = Idle

\* PybiPlatform::from_core_tags(pf.core)
FromCoreTags ==
    /\ pf.pc = "core"
    /\ pf' = [pf EXCEPT !.pc = "pybi", !.pybi = from_core_tags(pf.core)]
    /\ UNCHANGED <<xp, ps, fsv, pb, rs, ap, sk, dp>>

\* pf.pybi.wheel_platform_for_pybi(name, metadata)
WheelPlatformForPybi ==
    /\ pf.pc = "pybi"
    /\ \E arch_tags \in PybiArchTagLists, templates \in TemplateLists :
          LET r == wheel_platform_for_pybi(pf.pybi, arch_tags, templates)
          IN  pf' = [pf EXCEPT !.pc = "done", !.arch_tags = arch_tags, !.templates = templates,
                               !.status = r.status, !.groups = r.groups,
                               !.platform_tags = r.platform_tags, !.wheel = r.wheel]
    /\ UNCHANGED <<xp, ps, fsv, pb, rs, ap, sk, dp>>

\* Brief::resolve when the PYBI metadata holds no platform_machine:
\* wheel_platform.infer_platform_machine()?
InferPlatformMachine ==
    /\ pf.pc = "done"
    /\ pf.status = "ok"
    /\ pf' = [pf EXCEPT !.pc = "inferred", !.platform_machine = infer_platform_machine(pf.wheel)]
    /\ UNCHANGED <<xp, ps, fsv, pb, rs, ap, sk, dp>>

PlatformNext == FromCoreTags \/ WheelPlatformForPybi \/ InferPlatformMachine

SpecPlatform == PlatformInit /\ [][PlatformNext]_vars

(***************************************************************************)
(* SpecVersions.                                                           *)
(***************************************************************************)
VersionsInit ==
    /\ \E listing \in Listings(Versions, VersionArtifacts, MaxArtifacts),
          allow_pre \in {AllowPreSome({}), AllowPreAll},
          python_version \in {None, Some(2)},
          like \in Likes("a") :
          fsv = [VsIdle EXCEPT !.pc = "call", !.db = ("a" :> listing),
                               !.brief = Brief(AnyPython, <<>>, allow_pre),
                               !.python_version = python_version, !.like = like]
    /\ xp = Idle
    /\ ps = Idle
    /\ pf = Idle
    /\ pb = Idle
    /\ rs = Idle
    /\ ap = Idle
    /\ sk = Idle
    /\ dp = Idle

\* fetch_and_sort_versions(db, brief, "a", python_version, hints)
FetchAndSortVersions ==
    /\ fsv.pc = "call"
    /\ fsv' = [fsv EXCEPT !.pc = "done",
                        !.result = fetch_and_sort_versions(fsv.db, fsv.brief, "a", fsv.python_version,
                                                           version_hints_of(fsv.like))]
    /\ UNCHANGED <<xp, ps, pf, pb, rs, ap, sk, dp>>

SpecVersions == VersionsInit /\ [][FetchAndSortVersions]_vars

(***************************************************************************)
(* SpecPybi: one call of resolve_pybi, on a Windows platform.              *)
(***************************************************************************)
PybiArtifact(arch_tags, hash, yanked) ==
    ArtifactInfo(ArtifactName("pybi", arch_tags), NoUrl, hash, None, yanked, NoCore)

PybiArtifacts ==
    {PybiArtifact(<<WinTag("_amd64")>>, Some("h1"), FALSE),
     PybiArtifact(<<WinTag("32")>>, Some("h1"), FALSE),
     PybiArtifact(<<WinTag("_amd64")>>, Some("h2"), TRUE),
     PybiArtifact(<<RawTag("manylinux", <<2>>, <<1, 7>>, "x86_64")>>, Some("h1"), FALSE),
     WheelArtifact(Some("h1"), None, FALSE)}

\* the platform of a 64-bit Windows that also runs 32-bit builds
WindowsPlatform == from_core_tags(<<WinTag("_amd64"), WinTag("32")>>)

PybiInit ==
    /\ \E listing \in Listings(Versions, PybiArtifacts, MaxArtifacts),
          specifiers \in {<<>>, <<Specifier("<", 3)>>},
          allow_pre \in {AllowPreSome({}), AllowPreAll},
          like \in {None, Some(Blueprint(PinnedPackage("cpython", 1, <<"h2">>), <<>>))} :
          pb = [PbIdle EXCEPT !.pc = "call", !.db = ("cpython" :> listing),
                              !.brief = Brief([name |-> "cpython", specifiers |-> specifiers], <<>>, allow_pre),
                              !.platform = WindowsPlatform,
                              !.like = like]
    /\ xp = Idle
    /\ ps = Idle
    /\ pf = Idle
    /\ fsv = Idle
    /\ rs = Idle
    /\ ap = Idle
    /\ sk = Idle
    /\ dp = Idle

\* resolve_pybi(db, brief, platform, hints); pb.versions is its local
\* variable versions
ResolvePybi ==
    /\ pb.pc = "call"
    /\ pb' = [pb EXCEPT !.pc = "done",
                        !.versions = fetch_and_sort_versions(pb.db, pb.brief, pb.brief.python.name, None,
                                                             version_hints_of(pb.like)),
                        !.result = resolve_pybi(pb.db, pb.brief, pb.platform, version_hints_of(pb.like))]
    /\ UNCHANGED <<xp, ps, pf, fsv, rs, ap, sk, dp>>

SpecPybi == PybiInit /\ [][ResolvePybi]_vars

(***************************************************************************)
(* SpecResolve.                                                            *)
(***************************************************************************)
ResolveInit ==
    /\ \E a \in SortedListings({1, 2}, WheelsOfA, MaxArtifacts), requirements \in RootRequirements,
          env \in Envs :
          \E b \in SortedListings({1, 2}, WheelsOfB, MaxArtifacts - CountArtifacts(a)) :
             rs = [RsIdle EXCEPT !.pc = "call",
                                 !.self = PubgrubState(("a" :> a) @@ ("b" :> b), env,
                                                       Brief(AnyPython, requirements, AllowPreAll),
                                                       VersionHints_new, ROOT_VERSION)]
    /\ xp = Idle
    /\ ps = Idle
    /\ pf = Idle
    /\ fsv = Idle
    /\ pb = Idle
    /\ ap = Idle
    /\ sk = Idle
    /\ dp = Idle

Failed(error) == [rs EXCEPT !.pc = "failed", !.error = error]

\* the head of resolve_wheels: python_full_version is read from env and parsed
ResolveWheels ==
    /\ rs.pc = "call"
    /\ rs' = IF "python_full_version" \notin DOMAIN rs.self.env
                \/ ParseVersion(rs.self.env["python_full_version"]) = None
             THEN Failed("Missing 'python_full_version' environment marker variable")
             ELSE [rs EXCEPT !.pc = "solving",
                             !.self.python_full_version =
                                 Unwrap(ParseVersion(rs.self.env["python_full_version"]))]
    /\ UNCHANGED <<xp, ps, pf, fsv, pb, ap, sk, dp>>

Decided == {rs.decisions[i].pkg : i \in DOMAIN rs.decisions}

DecidedVersion(pkg) == rs.decisions[CHOOSE i \in DOMAIN rs.decisions : rs.decisions[i].pkg = pkg].version

DepsOf(decision) == rs.deps[<<decision.pkg, decision.version>>]

\* dependencies that no decision made so far contradicts
Agrees(dc) == \A q \in DOMAIN dc : q \in Decided => DecidedVersion(q) \in dc[q]

\* the packages the solver offers: Root first, then the undecided packages
\* that the dependencies of a decision name
potential_packages ==
    IF rs.decisions = <<>> THEN {Root}
    ELSE UNION {DOMAIN DepsOf(rs.decisions[i]) : i \in DOMAIN rs.decisions} \ Decided

\* the range offered with a package
term_intersection(pkg) ==
    {v \in RangeAny :
        /\ pkg = Root => v = ROOT_VERSION
        /\ \A i \in DOMAIN rs.decisions :
              pkg \in DOMAIN DepsOf(rs.decisions[i]) => v \in DepsOf(rs.decisions[i])[pkg]
        /\ <<pkg, v>> \in DOMAIN rs.deps => Agrees(rs.deps[<<pkg, v>>])
        /\ \A e \in rs.excluded : ~(e.pkg = pkg /\ e.version = v)}

\* the solver takes back its last decision, or gives up when that is Root
Backtrack(s) ==
    LET n == Len(s.decisions)
        last == s.decisions[n]
    IN  IF n <= 1 THEN [s EXCEPT !.pc = "failed", !.error = "NoSolution"]
        ELSE [s EXCEPT !.decisions = SubSeq(s.decisions, 1, n - 1),
                       !.excluded = {e \in s.excluded : e.level < n}
                                    \cup {[pkg |-> last.pkg, version |-> last.version, level |-> n - 1]}]

\* the successful reads of metadata so far: the release read, and the
\* package it was read for
Logged(fills, before, after, pkg) ==
    IF DOMAIN after.expected_metadata = DOMAIN before.expected_metadata THEN fills
    ELSE Append(fills, [release |-> CHOOSE k \in DOMAIN after.expected_metadata :
                                        k \notin DOMAIN before.expected_metadata,
                        pkg |-> pkg])

\* one call of choose_package_version, and what the solver does with the answer
ChoosePackageVersion ==
    /\ rs.pc = "solving"
    /\ \E respkg \in potential_packages, choice \in 1..MaxArtifacts :
          LET chosen == choose_package_version(rs.self, respkg, term_intersection(respkg), choice)
              called == [rs EXCEPT !.self = chosen.self,
                                   !.fills = Logged(rs.fills, rs.self, chosen.self, respkg)]
              decision == [pkg |-> respkg, version |-> Unwrap(chosen.version)]
          IN  rs' = IF ~chosen.ok THEN [called EXCEPT !.pc = "failed", !.error = "ErrorChoosingPackageVersion"]
                    ELSE IF chosen.version = None THEN Backtrack(called)
                    ELSE IF <<respkg, decision.version>> \in DOMAIN rs.deps
                    THEN [called EXCEPT !.decisions = Append(rs.decisions, decision)]
                    ELSE [called EXCEPT !.pc = "deps", !.next = decision]
    /\ UNCHANGED <<xp, ps, pf, fsv, pb, ap, sk, dp>>

\* one call of get_dependencies for the version just chosen
GetDependencies ==
    /\ rs.pc = "deps"
    /\ \E choice \in 1..MaxArtifacts :
          LET got == get_dependencies(rs.self, rs.next.pkg, rs.next.version, choice)
              called == [rs EXCEPT !.self = got.self,
                                   !.fills = Logged(rs.fills, rs.self, got.self, rs.next.pkg)]
              added == [called EXCEPT !.pc = "solving",
                                      !.deps = (<<rs.next.pkg, rs.next.version>> :> got.dc) @@ rs.deps]
          IN  rs' = IF ~got.ok THEN [called EXCEPT !.pc = "failed", !.error = "ErrorRetrievingDependencies"]
                    ELSE IF rs.next.pkg \in DOMAIN got.dc
                    THEN [called EXCEPT !.pc = "failed", !.error = "SelfDependency"]
                    ELSE IF \E q \in DOMAIN got.dc : got.dc[q] = {}
                    THEN [called EXCEPT !.pc = "failed", !.error = "DependencyOnTheEmptySet"]
                    ELSE IF Agrees(got.dc) THEN [added EXCEPT !.decisions = Append(rs.decisions, rs.next)]
                    ELSE added
    /\ UNCHANGED <<xp, ps, pf, fsv, pb, ap, sk, dp>>

\* the solver returns Ok(solution); resolve_wheels runs its filter_map over
\* the solution in the order the map yields its entries, and Brief::resolve
\* pins the wheels
CollectSolution ==
    /\ rs.pc = "solving"
    /\ potential_packages = {}
    /\ \E order \in Permutations(DOMAIN rs.decisions) :
          LET solution == [i \in DOMAIN rs.decisions |-> rs.decisions[order[i]]]
          IN  rs' = [rs EXCEPT !.pc = "done", !.solution = solution,
                               !.wheels = pin_wheels(rs.self.db, filter_map(rs.self, solution))]
    /\ UNCHANGED <<xp, ps, pf, fsv, pb, ap, sk, dp>>

ResolveNext == ResolveWheels \/ ChoosePackageVersion \/ GetDependencies \/ CollectSolution

SpecResolve == ResolveInit /\ [][ResolveNext]_vars


(***************************************************************************)
(* SpecAllowPre: an AllowPre serialized and read back, or a Document from  *)
(* elsewhere deserialized as an AllowPre.                                  *)
(***************************************************************************)
PackageNames == {"a", "b", "c", "d"}

AllowPres == {AllowPreAll} \cup {AllowPreSome(pkgs) : pkgs \in SUBSET PackageNames}

Documents ==
    {SeqDocument(items) : items \in SeqsUpTo(PackageNames, MaxItems)}
    \cup {StrDocument(text) : text \in {":all:", "all", ":ALL:", ""}}
    \cup {OtherDocument}

AllowPreInit ==
    /\ \/ \E value \in AllowPres :
             ap = [ApIdle EXCEPT !.pc = "serialize", !.origin = "value", !.value = value]
       \/ \E document \in Documents :
             ap = [ApIdle EXCEPT !.pc = "deserialize", !.origin = "document", !.document = document]
    /\ xp = Idle
    /\ ps = Idle
    /\ pf = Idle
    /\ fsv = Idle
    /\ pb = Idle
    /\ rs = Idle
    /\ sk = Idle
    /\ dp = Idle

\* AllowPre::serialize
SerializeAllowPre ==
    /\ ap.pc = "serialize"
    /\ \E order \in IterationOrders(ap.value.pkgs) :
          ap' = [ap EXCEPT !.pc = "deserialize", !.document = serialize_allow_pre(ap.value, order)]
    /\ UNCHANGED <<xp, ps, pf, fsv, pb, rs, sk, dp>>

\* AllowPre::deserialize
DeserializeAllowPre ==
    /\ ap.pc = "deserialize"
    /\ \E lent \in BOOLEAN :
          ap' = [ap EXCEPT !.pc = "done", !.lent = lent,
                           !.result = deserialize_allow_pre(ap.document, lent)]
    /\ UNCHANGED <<xp, ps, pf, fsv, pb, rs, sk, dp>>

AllowPreNext == SerializeAllowPre \/ DeserializeAllowPre

SpecAllowPre == AllowPreInit /\ [][AllowPreNext]_vars

(***************************************************************************)
(* SpecSeek: a SeekSlice over a Cursor, built by SeekSlice::new and then   *)
(* used for any sequence of seeks and reads.                               *)
(***************************************************************************)
\* the length of the buffer of test_seek_slice
BufLen == 10

Bounds == {0, 2, 8, U64Max - 1}

StartAmounts == {0, 1, 6, U64Max}
SignedAmounts == {I64Min, -2, -1, 0, 1, I64Max}

SeekFroms ==
    {SeekFrom("Start", amount) : amount \in StartAmounts}
    \cup {SeekFrom(whence, amount) : whence \in {"End", "Current"}, amount \in SignedAmounts}

BufLens == {0, 1, 3}

SeekInit ==
    /\ \E overflow_checks \in BOOLEAN, start \in Bounds, end \in Bounds :
          sk = [SkIdle EXCEPT !.pc = "new", !.overflow_checks = overflow_checks,
                              !.slice = [NoSlice EXCEPT !.inner = Cursor(BufLen), !.start = start,
                                                        !.end = end]]
    /\ xp = Idle
    /\ ps = Idle
    /\ pf = Idle
    /\ fsv = Idle
    /\ pb = Idle
    /\ rs = Idle
    /\ ap = Idle
    /\ dp = Idle

\* SeekSlice::new(cursor, start, end)
New ==
    /\ sk.pc = "new"
    /\ LET r == SeekSlice_new(sk.slice.inner, sk.slice.start, sk.slice.end)
       IN  sk' = [sk EXCEPT !.pc = IF r.status = "ok" THEN "ready" ELSE "panicked",
                            !.slice = r.slice, !.before = sk.slice,
                            !.last = [NoCall EXCEPT !.op = "new", !.status = r.status]]
    /\ UNCHANGED <<xp, ps, pf, fsv, pb, rs, ap, dp>>

\* slice.seek(pos); sk.before is the slice as it was when seek was called
Seek ==
    /\ sk.pc = "ready"
    /\ \E pos \in SeekFroms :
          LET r == seek(sk.slice, pos, sk.overflow_checks)
          IN  sk' = [sk EXCEPT !.pc = IF r.status = "panic" THEN "panicked" ELSE "ready",
                               !.slice = r.slice, !.before = sk.slice,
                               !.last = [op |-> "seek", pos |-> pos, status |-> r.status,
                                         value |-> r.value, bytes |-> <<>>]]
    /\ UNCHANGED <<xp, ps, pf, fsv, pb, rs, ap, dp>>

\* slice.read(buf) for a buffer of buf_len bytes
Read ==
    /\ sk.pc = "ready"
    /\ \E buf_len \in BufLens :
          LET r == read(sk.slice, buf_len)
          IN  sk' = [sk EXCEPT !.slice = r.slice, !.before = sk.slice,
                               !.last = [NoCall EXCEPT !.op = "read", !.status = "ok",
                                                       !.value = Len(r.bytes), !.bytes = r.bytes]]
    /\ UNCHANGED <<xp, ps, pf, fsv, pb, rs, ap, dp>>

SeekNext == New \/ Seek \/ Read

SpecSeek == SeekInit /\ [][SeekNext]_vars

(***************************************************************************)
(* SpecProvider: the PubgrubState of one resolve_wheels, called as a       *)
(* DependencyProvider in any order and with any arguments.  Its database   *)
(* lists the package "a", with fewer than MaxArtifacts artifacts so that    *)
(* the PackageDB can always fail; the environment has no sys_platform.     *)
(***************************************************************************)
ReqBifSys == Requirement("b", <<>>, <<>>, Some(Marker("sys_platform", "linux")))

\* a wheel with an extra that requires its own package, one whose marker
\* names a variable the environment lacks and whose requires_python refuses
\* the Python, and one whose requires_python in the index does not parse
ProviderWheels ==
    {Wheel(WheelCoreMetadata(<<ReqA1, ReqBlt2, ReqBifx>>, <<Specifier(">=", 2)>>, {"x"})),
     Wheel(WheelCoreMetadata(<<ReqBifSys>>, <<Specifier(">=", 3)>>, {})),
     [Wheel(NoCore) EXCEPT !.requires_python = Some(RequiresPythonInvalid)]}

ProviderEnv == ("python_full_version" :> "2") @@ ("platform_machine" :> "x86_64")

ProviderPackages == {Root, Package("a", None), Package("a", Some("x"))}

\* the ranges offered: every version, the release 2 alone, and a version
\* that is not published
ProviderRanges == {RangeAny, {2}, {3}}

ProviderInit ==
    /\ \E a \in SortedListings({1, 2}, ProviderWheels, MaxArtifacts - 1) :
          dp = [pc |-> "ready",
                self |-> PubgrubState("a" :> a, ProviderEnv,
                                      Brief(AnyPython, <<ReqAx, ReqBifArm>>, AllowPreAll),
                                      VersionHints_new, Unwrap(ParseVersion(ProviderEnv["python_full_version"]))),
                call |-> NoProviderCall]
    /\ xp = Idle
    /\ ps = Idle
    /\ pf = Idle
    /\ fsv = Idle
    /\ pb = Idle
    /\ rs = Idle
    /\ ap = Idle
    /\ sk = Idle

\* one call of choose_package_version
CallChoosePackageVersion ==
    /\ dp.pc = "ready"
    /\ \E respkg \in ProviderPackages, range \in ProviderRanges, choice \in 1..MaxArtifacts :
          LET answer == choose_package_version(dp.self, respkg, range, choice)
          IN  dp' = [dp EXCEPT !.self = answer.self,
                               !.call = [op |-> "choose_package_version", pkg |-> respkg, range |-> range,
                                         version |-> ROOT_VERSION, before |-> dp.self, ok |-> answer.ok,
                                         error |-> answer.error, chosen |-> answer.version, dc |-> <<>>]]
    /\ UNCHANGED <<xp, ps, pf, fsv, pb, rs, ap, sk>>

\* one call of get_dependencies
CallGetDependencies ==
    /\ dp.pc = "ready"
    /\ \E pkg \in ProviderPackages, version \in {ROOT_VERSION, 1, 2}, choice \in 1..MaxArtifacts :
          LET got == get_dependencies(dp.self, pkg, version, choice)
          IN  /\ pkg = Root <=> version = ROOT_VERSION
              /\ dp' = [dp EXCEPT !.self = got.self,
                                  !.call = [op |-> "get_dependencies", pkg |-> pkg, range |-> {},
                                            version |-> version, before |-> dp.self, ok |-> got.ok,
                                            error |-> got.error, chosen |-> None, dc |-> got.dc]]
    /\ UNCHANGED <<xp, ps, pf, fsv, pb, rs, ap, sk>>

ProviderNext == CallChoosePackageVersion \/ CallGetDependencies

SpecProvider == ProviderInit /\ [][ProviderNext]_vars

(***************************************************************************)
(* Claims about expand_platform_tag, checked under SpecExpand.             *)
(***************************************************************************)
Recognized(tag) == tag.os = "win" \/ LINUX_RE(tag) \/ MACOSX_RE(tag)

\* a number written in canonical decimal form (no leading zero)
CanonicalDigits(ds) == ds = FormatU32(ParseU32(ds))

\* the canonical tag a legacy tag stands for, as the claims write it
LegacyCanonical(tag) ==
    RawTag("manylinux", <<2>>,
           CASE tag.os = "manylinux1" -> <<5>>
             [] tag.os = "manylinux2010" -> <<1, 2>>
             [] tag.os = "manylinux2014" -> <<1, 7>>,
           tag.arch)

LegacyFirstTwo ==
    LEGACY_MANYLINUX_RE(xp.tag) =>
        /\ Len(xp.out) >= 2
        /\ xp.out[1] = LegacyCanonical(xp.tag)
        /\ xp.out[2] = xp.tag

LegacyAt == {<<5, "manylinux1">>, <<12, "manylinux2010">>, <<17, "manylinux2014">>}

IsManylinuxCall == xp.pc = "done" /\ xp.tag.os = "manylinux" /\ LINUX_RE(xp.tag)

AllMinorsPresent ==
    \A k \in 0..ParseU32(xp.tag.minor) :
        RawTag("manylinux", FormatU32(ParseU32(xp.tag.major)), FormatU32(k), xp.tag.arch)
            \in Range(xp.out)

\* the alias of minor la[1] is in the expansion and sits right after the
\* canonical tag of that minor
AliasAfterCanonical(la) ==
    LET alias == FormatLegacy(la[2], xp.tag.arch)
        canon == RawTag("manylinux", FormatU32(ParseU32(xp.tag.major)), FormatU32(la[1]), xp.tag.arch)
    IN  /\ alias \in Range(xp.out)
        /\ IndexOf(xp.out, alias) = IndexOf(xp.out, canon) + 1
        /\ IndexOf(xp.out, canon) > 0

AliasAbsent(la) == FormatLegacy(la[2], xp.tag.arch) \notin Range(xp.out)

\* C7 as stated: for manylinux_<M>_<m>_<arch> with any major M, the expansion
\* holds the canonical tag of every minor in [0, m] and the legacy aliases of
\* exactly those of the minors 5, 12, 17 that are <= m, each right after the
\* canonical tag of its minor.
C7_Original ==
    IsManylinuxCall =>
        /\ AllMinorsPresent
        /\ \A la \in LegacyAt :
              IF la[1] <= ParseU32(xp.tag.minor) THEN AliasAfterCanonical(la) ELSE AliasAbsent(la)

\* C7 (amended): for manylinux_<M>_<m>_<arch> the expansion holds the
\* canonical tag of every minor in [0, m]; when M = 2 it holds the legacy
\* aliases of exactly those of the minors 5, 12, 17 that are <= m, each right
\* after the canonical tag of its minor; when M # 2 it holds no legacy alias.
C7_Amended ==
    IsManylinuxCall =>
        /\ AllMinorsPresent
        /\ \A la \in LegacyAt :
              IF ParseU32(xp.tag.major) = 2 /\ la[1] <= ParseU32(xp.tag.minor)
              THEN AliasAfterCanonical(la)
              ELSE AliasAbsent(la)

C7_Witness ==
    /\ IsManylinuxCall
    /\ xp.tag = RawTag("manylinux", <<2>>, <<1, 8>>, "x86_64")
    /\ Len(xp.out) = 19 + 3
    /\ xp.out[2] = RawTag("manylinux", <<2>>, <<1, 7>>, "x86_64")
    /\ xp.out[3] = FormatLegacy("manylinux2014", "x86_64")

\* the arch family of the claim
Family(arch) ==
    IF arch = "x86_64" THEN <<"x86_64", "universal2", "intel", "fat64", "fat3", "universal">>
    ELSE IF arch = "arm64" THEN <<"arm64", "universal2">>
    ELSE <<arch>>

\* the i-th version of the claim's enumeration for macosx_<M>_<m>: (M,0) down
\* to (11,0), then (10,k) with k descending from m (M = 10) or 15 (M > 10)
NthVersion(M, m, i) ==
    IF i <= M - 10 THEN <<M + 1 - i, 0>>
    ELSE <<10, (IF M = 10 THEN m ELSE 15) - (i - (M - 10) - 1)>>

NumVersions(M, m) == (M - 10) + (IF M = 10 THEN m ELSE 15) + 1

\* C8: for macosx_<M>_<m>_<arch> with M >= 10 the expansion is, version-major
\* outer, one tag per member of the arch family for each of the versions (M,0)
\* .. (11,0), (10,k) .. (10,0), with k starting at m when M = 10 and at 15 when
\* M > 10; macosx_12_0_universal2 yields exactly 18 tags.
C8_MacExpansion ==
    (xp.pc = "done" /\ MACOSX_RE(xp.tag) /\ ParseU32(xp.tag.major) >= 10) =>
        LET M == ParseU32(xp.tag.major)
            m == ParseU32(xp.tag.minor)
            fam == Family(xp.tag.arch)
        IN  /\ Len(xp.out) = NumVersions(M, m) * Len(fam)
            /\ \A i \in 1..NumVersions(M, m) : \A j \in 1..Len(fam) :
                  xp.out[(i - 1) * Len(fam) + j] =
                      RawTag("macosx", FormatU32(NthVersion(M, m, i)[1]),
                             FormatU32(NthVersion(M, m, i)[2]), fam[j])
            /\ xp.tag = RawTag("macosx", <<1, 2>>, <<0>>, "universal2") => Len(xp.out) = 18

C8_Witness ==
    /\ xp.pc = "done"
    /\ xp.tag = RawTag("macosx", <<1, 2>>, <<0>>, "universal2")
    /\ Len(xp.out) = 18
    /\ xp.out[3] = RawTag("macosx", <<1, 0>>, <<1, 5>>, "universal2")
    /\ xp.out[18] = RawTag("macosx", <<1, 0>>, <<0>>, "universal2")

(***************************************************************************)
(* Claims about PlatformImpl::push, checked under SpecPush.                *)
(***************************************************************************)
\* the last call pushed a tag that was already present
RePushed == ps.calls > 0 /\ ps.last \in DOMAIN ps.before.tag_map

Accepted == xp.pc = "grouped" /\ xp.out.ok

AllArches == LinuxArches \cup MacArchNames \cup FatArches

ManylinuxGroups == {"manylinux-" \o a : a \in AllArches}
MusllinuxGroups == {"musllinux-" \o a : a \in AllArches}

\* C12: of a tag compat_groups accepts, the groups never hold both a
\* manylinux-<arch> and a musllinux-<arch> group; they hold both macos-x86_64
\* and macos-arm64 exactly when the tag is a macosx tag of arch universal2;
\* every other accepted tag has exactly one group.
C12_GroupDisjointness ==
    Accepted =>
        LET groups == Range(xp.out.groups)
            both == {"macos-x86_64", "macos-arm64"} \subseteq groups
        IN  /\ ~(groups \cap ManylinuxGroups # {} /\ groups \cap MusllinuxGroups # {})
            /\ both <=> (MACOSX_RE(xp.tag) /\ xp.tag.arch = "universal2")
            /\ both => groups = {"macos-x86_64", "macos-arm64"}
            /\ ~both => Cardinality(groups) = 1 /\ Len(xp.out.groups) = 1

\* a universal2 tag, which is in both macOS groups
C12_Witness ==
    /\ Accepted
    /\ xp.tag = RawTag("macosx", <<1, 2>>, <<0>>, "universal2")
    /\ xp.out.groups = <<"macos-x86_64", "macos-arm64">>

(***************************************************************************)
(* Claims about PybiPlatform, checked under SpecPlatform.                  *)
(***************************************************************************)
PybiBuilt == pf.pc = "pybi"

\* the expansions of the core tags, in order
Expansions == [i \in DOMAIN pf.core |-> expand_platform_tag(pf.core[i])]

\* the tags that the i-th expansion holds and no earlier one does
FirstIntroduced(exp, i) == Range(exp[i]) \ UNION {Range(exp[k]) : k \in 1..(i - 1)}

Score(x) == pf.pybi.tag_map[x]

\* tags that a platform built from CoreTags must not know: a core tag with
\* its minor raised by one, or with another architecture
Probes ==
    {[t EXCEPT !.minor = FormatU32(ParseU32(t.minor) + 1)] : t \in {c \in CoreTags : c.minor # NoDigits}}
    \cup {[t EXCEPT !.arch = "aarch64"] : t \in CoreTags}
    \cup {RawTag("manylinux", <<2>>, <<3, 0>>, "x86_64"), RawTag("manylinux", <<2>>, <<1, 7>>, "aarch64")}

PresentExactlyExpanded(exp) ==
    LET expanded == UNION {Range(exp[i]) : i \in DOMAIN exp}
    IN  /\ DOMAIN pf.pybi.tag_map = expanded
        /\ \A x \in Probes : (compatibility(pf.pybi, x) # {}) <=> x \in expanded

EarlierCoreTagWins(exp) ==
    \A i, j \in DOMAIN exp :
        i < j => LET late == FirstIntroduced(exp, j)
                 IN  \A x \in Range(exp[i]) : \A y \in late : Score(x) > Score(y)

\* C10 as stated: compatibility(x) is present exactly when x occurs in some
\* expand(ci); the tags of one expansion score in expansion order; every tag of
\* expand(ci) scores higher than every tag first introduced by expand(cj), i < j.
C10_Original ==
    PybiBuilt =>
        LET exp == Expansions
        IN  /\ PresentExactlyExpanded(exp)
            /\ \A i \in DOMAIN exp : \A a \in 1..(Len(exp[i]) - 1) :
                  Score(exp[i][a]) > Score(exp[i][a + 1])
            /\ EarlierCoreTagWins(exp)

\* C10 (amended): compatibility(x) is present exactly when x occurs in some
\* expand(ci); the tags first introduced by one expansion score in expansion
\* order (a tag an earlier core tag already introduced keeps its higher score);
\* every tag of expand(ci) scores higher than every tag first introduced by
\* expand(cj), i < j.
C10_Amended ==
    PybiBuilt =>
        LET exp == Expansions
        IN  /\ PresentExactlyExpanded(exp)
            /\ \A i \in DOMAIN exp :
                  LET new == FirstIntroduced(exp, i)
                      fresh == SelectSeq(exp[i], LAMBDA t : t \in new)
                  IN  \A a \in 1..(Len(fresh) - 1) : Score(fresh[a]) > Score(fresh[a + 1])
            /\ EarlierCoreTagWins(exp)

C10_Witness ==
    /\ PybiBuilt
    /\ pf.core = <<FormatLegacy("manylinux2014", "x86_64"), RawTag("musllinux", <<1>>, <<3>>, "x86_64")>>
    /\ compatibility(pf.pybi, RawTag("manylinux", <<2>>, <<3, 0>>, "x86_64")) = {}
    /\ compatibility(pf.pybi, RawTag("manylinux", <<2>>, <<1, 7>>, "aarch64")) = {}
    /\ Score(RawTag("manylinux", <<2>>, <<1, 7>>, "x86_64")) > Score(RawTag("manylinux", <<2>>, <<1, 0>>, "x86_64"))
    /\ Score(RawTag("manylinux", <<2>>, <<0>>, "x86_64")) > Score(RawTag("musllinux", <<1>>, <<2>>, "x86_64"))

\* the groups of a tag compat_groups accepts (empty when it does not)
GroupsOf(tag) == Range(compat_groups(tag).groups)

Returned == pf.pc = "done" /\ pf.status = "ok"

\* C5: whenever wheel_platform_for_pybi returns a WheelPlatform, exactly one
\* compat group survived the narrowing, and every platform tag substituted
\* into a -PLATFORM template of the result has that group among its groups.
C5_Narrowing ==
    Returned =>
        /\ Cardinality(pf.groups) = 1
        /\ \A g \in pf.groups :
              /\ \A t \in Range(pf.platform_tags) : g \in GroupsOf(t)
              /\ \A w \in Range(pf.wheel.tags) :
                    \/ w \in Range(pf.templates)
                    \/ /\ WheelTag(w.prefix, PLATFORM) \in Range(pf.templates)
                       /\ w.plat \in Range(pf.platform_tags)
                       /\ g \in GroupsOf(w.plat)

\* a universal2 PYBI on a platform that prefers arm64 over x86_64
C5_Witness ==
    /\ Returned
    /\ pf.core = <<RawTag("macosx", <<1, 1>>, <<0>>, "arm64"), RawTag("macosx", <<1, 1>>, <<0>>, "x86_64")>>
    /\ pf.arch_tags = <<RawTag("macosx", <<1, 0>>, <<1, 5>>, "universal2")>>
    /\ pf.groups = {"macos-arm64"}
    /\ WheelTag("foo-bar", RawTag("macosx", <<1, 1>>, <<0>>, "arm64")) \in DOMAIN pf.wheel.tag_map
    /\ WheelTag("foo-bar", RawTag("macosx", <<1, 1>>, <<0>>, "universal2")) \in DOMAIN pf.wheel.tag_map
    /\ WheelTag("foo-bar", RawTag("macosx", <<1, 1>>, <<0>>, "x86_64")) \notin DOMAIN pf.wheel.tag_map
    /\ \A t \in Range(pf.platform_tags) : GroupsOf(t) # {"macos-x86_64"}

\* what the i-th wheel tag template is to contribute: for a template ending
\* in -PLATFORM its prefix joined to each selected platform tag, in their
\* order; for any other template the template itself
Contribution(i) ==
    LET template == pf.templates[i]
    IN  IF template.plat = PLATFORM
        THEN [k \in 1..Len(pf.platform_tags) |->
                [prefix |-> template.prefix, plat |-> pf.platform_tags[k]]]
        ELSE <<template>>

Contributions == Concat([i \in DOMAIN pf.templates |-> Contribution(i)])

WheelScore(x) == pf.wheel.tag_map[x]

\* C11: the WheelPlatform returned by wheel_platform_for_pybi lists the
\* contributions of the templates in template order (a tag contributed a
\* second time stays where it was first contributed), and every tag of an
\* earlier template scores strictly higher than every tag first contributed
\* by a later template.
C11_TemplateOrder ==
    Returned =>
        LET all == Contributions
            firsts == {i \in DOMAIN all : \A j \in 1..(i - 1) : all[j] # all[i]}
            place(i) == Cardinality({j \in firsts : j < i}) + 1
        IN  /\ Len(pf.wheel.tags) = Cardinality(firsts)
            /\ DOMAIN pf.wheel.tag_map = Range(all)
            /\ \A i \in firsts : pf.wheel.tags[place(i)] = all[i]
            /\ \A i, j \in DOMAIN pf.templates :
                  i < j =>
                    LET late == Range(Contribution(j))
                                    \ UNION {Range(Contribution(k)) : k \in 1..(j - 1)}
                    IN  \A x \in Range(Contribution(i)) : \A y \in late :
                            WheelScore(x) > WheelScore(y)

\* the case of test_pybi_platform_to_wheel_platform: a universal2 PYBI on a
\* platform that prefers arm64, and the order the test asserts
C11_Witness ==
    /\ Returned
    /\ pf.core = <<RawTag("macosx", <<1, 1>>, <<0>>, "arm64"), RawTag("macosx", <<1, 1>>, <<0>>, "x86_64")>>
    /\ pf.arch_tags = <<RawTag("macosx", <<1, 0>>, <<1, 5>>, "universal2")>>
    /\ Len(pf.templates) = 3
    /\ WheelTag("foo-bar", RawTag("macosx", <<1, 1>>, <<0>>, "x86_64")) \notin DOMAIN pf.wheel.tag_map
    /\ WheelScore(WheelTag("foo-bar", RawTag("macosx", <<1, 1>>, <<0>>, "arm64")))
          > WheelScore(WheelTag("foo-bar", RawTag("macosx", <<1, 0>>, <<0>>, "arm64")))
    /\ WheelScore(WheelTag("foo-bar", RawTag("macosx", <<1, 0>>, <<0>>, "arm64")))
          > WheelScore(WheelTag("foo-none", OtherTag("any")))
    /\ WheelScore(WheelTag("foo-none", OtherTag("any")))
          > WheelScore(WheelTag("foo-baz", RawTag("macosx", <<1, 1>>, <<0>>, "arm64")))

\* the union of the compat groups of the PYBI's arch_tags
PybiGroups == UNION {GroupsOf(pf.arch_tags[i]) : i \in DOMAIN pf.arch_tags}

\* what is left of PybiGroups after the first k platform tags, were the walk
\* never to stop
Intersected(k) == {g \in PybiGroups : \A i \in 1..k : g \in GroupsOf(pf.pybi.tags[i])}

\* the walk stops at the first k that leaves one group, and ends with one
\* group only if it stops
EndsWithOneGroup == \E k \in 0..Len(pf.pybi.tags) : Cardinality(Intersected(k)) = 1

Called == pf.pc = "done"

\* C21 as stated: wheel_platform_for_pybi returns no WheelPlatform when the
\* union of the compat groups of the PYBI's arch_tags is empty, or when the
\* walk over the platform's tags does not end with exactly one group; so for
\* a universal2 PYBI on a platform none of whose tags has a single macOS
\* group, and so for a PYBI that shares no group with the most preferred tag.
C21_Original ==
    Called =>
        /\ PybiGroups = {} \/ ~EndsWithOneGroup => ~Returned
        /\ PybiGroups = {"macos-x86_64", "macos-arm64"}
              /\ (\A i \in DOMAIN pf.pybi.tags :
                     Cardinality(GroupsOf(pf.pybi.tags[i]) \cap PybiGroups) # 1)
              => ~Returned
        /\ pf.pybi.tags # <<>> /\ PybiGroups \cap GroupsOf(pf.pybi.tags[1]) = {} => ~Returned

\* C21 (amended): as stated, but the PYBI that shares no group with the most
\* preferred tag is refused only when its arch_tags have more than one group:
\* a PYBI of exactly one group is never narrowed, and gets its WheelPlatform
\* whatever the groups of the platform's tags are.
C21_Amended ==
    Called =>
        /\ PybiGroups = {} \/ ~EndsWithOneGroup => ~Returned
        /\ PybiGroups = {"macos-x86_64", "macos-arm64"}
              /\ (\A i \in DOMAIN pf.pybi.tags :
                     Cardinality(GroupsOf(pf.pybi.tags[i]) \cap PybiGroups) # 1)
              => ~Returned
        /\ pf.pybi.tags # <<>> /\ PybiGroups \cap GroupsOf(pf.pybi.tags[1]) = {}
              => (Returned <=> Cardinality(PybiGroups) = 1 /\ pf.status # "err")

\* a universal2 PYBI refused on a platform whose first tag is for Linux
C21_Witness ==
    /\ Called
    /\ ~Returned
    /\ pf.arch_tags = <<RawTag("macosx", <<1, 0>>, <<1, 5>>, "universal2")>>
    /\ PybiGroups = {"macos-x86_64", "macos-arm64"}
    /\ pf.pybi.tags # <<>>
    /\ GroupsOf(pf.pybi.tags[1]) = {"manylinux-x86_64"}
    /\ \E i \in DOMAIN pf.pybi.tags : GroupsOf(pf.pybi.tags[i]) = {"macos-arm64"}

\* the call of infer_platform_machine that Brief::resolve makes has returned
Inferred == pf.pc = "inferred"

MacOSPlatform ==
    /\ pf.pybi.tags # <<>>
    /\ \A i \in DOMAIN pf.pybi.tags : MACOSX_RE(pf.pybi.tags[i])

HasPlatformTemplate == \E i \in DOMAIN pf.templates : pf.templates[i].plat = PLATFORM

\* C24: on a WheelPlatform that wheel_platform_for_pybi returned for a macOS
\* PybiPlatform and a PYBI with at least one -PLATFORM template,
\* infer_platform_machine succeeds, with "arm64" when the surviving compat
\* group is macos-arm64 and with "x86_64" when it is macos-x86_64.
C24_InferMachine ==
    Inferred /\ MacOSPlatform /\ HasPlatformTemplate =>
        /\ pf.groups = {"macos-arm64"} => pf.platform_machine = {"arm64"}
        /\ pf.groups = {"macos-x86_64"} => pf.platform_machine = {"x86_64"}

\* a universal2 PYBI on a Mac that prefers arm64: the WheelPlatform holds the
\* substituted tags, and infer_platform_machine has found no machine
C24_Witness ==
    /\ Inferred /\ MacOSPlatform /\ HasPlatformTemplate
    /\ pf.groups = {"macos-arm64"}
    /\ \E i \in DOMAIN pf.arch_tags : pf.arch_tags[i].arch = "universal2"
    /\ \E i \in DOMAIN pf.wheel.tags : pf.wheel.tags[i].plat.arch = "arm64"
    /\ pf.platform_machine = {}

(***************************************************************************)
(* Claims about the version selector, checked under SpecVersions.          *)
(***************************************************************************)
FsvHints == version_hints_of(fsv.like)

\* the artifacts the PackageDB publishes for the hinted version of "a"
HintedArtifacts ==
    IF "a" \in DOMAIN FsvHints
    THEN artifacts_for_version(fsv.db, "a", FsvHints["a"].version).ais
    ELSE <<>>

\* the requires_python filter lets the artifact through
PassesPythonFilter(ai) ==
    \/ fsv.python_version = None
    \/ ai.requires_python = None
    \/ /\ Unwrap(ai.requires_python).valid
       /\ satisfied_by(Unwrap(ai.requires_python).specs, Unwrap(fsv.python_version))

HashStillPublished(ai) == ai.hash # None /\ Unwrap(ai.hash) \in FsvHints["a"].hashes

HintedFirst == fsv.result.versions # <<>> /\ fsv.result.versions[1] = FsvHints["a"].version

PrereleaseAllowed ==
    ~is_prerelease(FsvHints["a"].version) \/ allow_pre_for(fsv.brief.allow_pre, "a")

\* C3 as stated: if like pins "a" at v with the hash h, h is still the hash
\* of a published artifact of v and that artifact passes the requires_python
\* filter, then v is the first version of a successful selection
C3_Original ==
    (/\ fsv.pc = "done"
     /\ fsv.result.ok
     /\ \E i \in DOMAIN HintedArtifacts :
           HashStillPublished(HintedArtifacts[i]) /\ PassesPythonFilter(HintedArtifacts[i]))
    => HintedFirst

\* C3, amended: if like pins "a" at v with the hashes H, v is not a
\* pre-release or allow_pre permits "a", and some published artifact of v is
\* not yanked or has its hash in H and passes the requires_python filter,
\* then v is the first version of a successful selection; a hinted
\* pre-release that allow_pre does not permit is not selected at all
C3_Amended ==
    (fsv.pc = "done" /\ fsv.result.ok /\ "a" \in DOMAIN FsvHints)
    => /\ (/\ PrereleaseAllowed
           /\ \E i \in DOMAIN HintedArtifacts :
                 /\ ~HintedArtifacts[i].yanked \/ HashStillPublished(HintedArtifacts[i])
                 /\ PassesPythonFilter(HintedArtifacts[i]))
          => HintedFirst
       /\ ~PrereleaseAllowed => FsvHints["a"].version \notin Range(fsv.result.versions)

\* the hinted version has only yanked artifacts, it is not the highest
\* version selected, and it comes first
C3_Witness ==
    /\ fsv.pc = "done"
    /\ fsv.result.ok
    /\ HintedArtifacts # <<>>
    /\ \A i \in DOMAIN HintedArtifacts : HintedArtifacts[i].yanked
    /\ Len(fsv.result.versions) >= 2
    /\ HintedFirst
    /\ fsv.result.versions[2] > fsv.result.versions[1]

Selected == fsv.pc = "done" /\ fsv.result.ok

FsvListing == available_artifacts(fsv.db, "a")

\* a yanked artifact whose hash is in the hash set of the hint for "a"
RescuedByHint(ai) == "a" \in DOMAIN FsvHints /\ HashStillPublished(ai)

\* the acceptance predicate of one version of the listing
Acceptable(entry) ==
    /\ ~is_prerelease(entry.version) \/ allow_pre_for(fsv.brief.allow_pre, "a")
    /\ \E k \in DOMAIN entry.ais :
          /\ ~entry.ais[k].yanked \/ RescuedByHint(entry.ais[k])
          /\ PassesPythonFilter(entry.ais[k])

\* C16: a successful fetch_and_sort_versions returns a version exactly when
\* the version is not a pre-release or allow_pre permits the package, and
\* some artifact of it is not yanked or is yanked with its hash in the hint's
\* hash set, and has no requires_python, or python_version is absent, or its
\* requires_python admits python_version; each accepted version appears once.
C16_Acceptance ==
    Selected =>
        /\ \A i \in DOMAIN FsvListing :
              FsvListing[i].version \in Range(fsv.result.versions) <=> Acceptable(FsvListing[i])
        /\ Range(fsv.result.versions) \subseteq {FsvListing[i].version : i \in DOMAIN FsvListing}
        /\ NoDup(fsv.result.versions)

\* one version is accepted through a yanked artifact that the hint rescues,
\* another is rejected although it is no pre-release
C16_Witness ==
    /\ Selected
    /\ \E i, j \in DOMAIN FsvListing :
          /\ FsvListing[i].version \in Range(fsv.result.versions)
          /\ \A k \in DOMAIN FsvListing[i].ais :
                FsvListing[i].ais[k].yanked \/ ~PassesPythonFilter(FsvListing[i].ais[k])
          /\ ~is_prerelease(FsvListing[j].version)
          /\ FsvListing[j].version \notin Range(fsv.result.versions)
          /\ \E k \in DOMAIN FsvListing[j].ais : ~FsvListing[j].ais[k].yanked

\* the listing in another order
Relisted(perm) == [i \in DOMAIN FsvListing |-> FsvListing[perm[i]]]

\* C17: the list a successful fetch_and_sort_versions returns has the hinted
\* version first, if it was accepted, and all other versions after it in
\* strictly descending order, whatever the order of the PackageDB's listing.
C17_Ordering ==
    Selected =>
        LET vs == fsv.result.versions
            hinted == {FsvHints[p].version : p \in DOMAIN FsvHints \cap {"a"}}
        IN  /\ \A v \in hinted : v \in Range(vs) => vs[1] = v
            /\ \A i, j \in DOMAIN vs :
                  i < j /\ vs[i] \notin hinted /\ vs[j] \notin hinted => vs[i] > vs[j]
            /\ \A perm \in Permutations(DOMAIN FsvListing) :
                  fetch_and_sort_versions("a" :> Relisted(perm), fsv.brief, "a", fsv.python_version,
                                          FsvHints) = fsv.result

\* three versions listed in ascending order, the hinted one the middle one
C17_Witness ==
    /\ Selected
    /\ Len(FsvListing) = 3
    /\ \A i \in 1..2 : FsvListing[i].version < FsvListing[i + 1].version
    /\ "a" \in DOMAIN FsvHints
    /\ fsv.result.versions = <<2, 3, 1>>

(***************************************************************************)
(* Claims about the choice of the PYBI, checked under SpecPybi.            *)
(***************************************************************************)
\* the version selector's list for the PYBI
PybiSelection == pb.versions

PybiAis(version) == artifacts_for_version(pb.db, "cpython", version).ais

\* the PYBI artifacts of a version that the platform can run, as indices
Runnable(version) ==
    {i \in DOMAIN PybiAis(version) :
        /\ PybiAis(version)[i].name.kind = "pybi"
        /\ max_compatibility(pb.platform, PybiAis(version)[i].name.arch_tags) # None}

PybiScore(version, i) == Unwrap(max_compatibility(pb.platform, PybiAis(version)[i].name.arch_tags))

\* the positions, in the selector's order, of the versions that satisfy
\* brief.python.specifiers and have a runnable PYBI
EligiblePositions ==
    {k \in DOMAIN PybiSelection.versions :
        /\ satisfied_by(pb.brief.python.specifiers, PybiSelection.versions[k])
        /\ Runnable(PybiSelection.versions[k]) # {}}

\* the eligible artifacts: <<position of the version, index of the artifact>>
Eligible == UNION {{<<k, i>> : i \in Runnable(PybiSelection.versions[k])} : k \in EligiblePositions}

EligibleScore(e) == PybiScore(PybiSelection.versions[e[1]], e[2])

Chosen == <<CHOOSE k \in DOMAIN PybiSelection.versions : PybiSelection.versions[k] = pb.result.version,
            pb.result.index>>

\* C4 as stated: the choice is the eligible artifact of maximum score, of
\* equal scores the earliest in the selector's order, then the earliest in
\* the artifact order; the call fails when no artifact is eligible
C4_Original ==
    (pb.pc = "done" /\ PybiSelection.ok)
    => IF Eligible = {} THEN ~pb.result.ok
       ELSE /\ pb.result.ok
            /\ Chosen \in Eligible
            /\ \A e \in Eligible :
                  \/ EligibleScore(e) < EligibleScore(Chosen)
                  \/ /\ EligibleScore(e) = EligibleScore(Chosen)
                     /\ Chosen[1] < e[1] \/ (Chosen[1] = e[1] /\ Chosen[2] <= e[2])

\* C4, amended: the choice is an artifact of the first version, in the
\* selector's order, that satisfies the specifiers and has a runnable PYBI;
\* of that version's runnable PYBIs it is the one of maximum score, of
\* equal scores the latest in the artifact order; the call fails exactly
\* when no artifact is eligible or the selector fails
C4_Amended ==
    pb.pc = "done"
    => IF ~PybiSelection.ok \/ Eligible = {} THEN ~pb.result.ok
       ELSE /\ pb.result.ok
            /\ Chosen \in Eligible
            /\ \A k \in EligiblePositions : Chosen[1] <= k
            /\ \A i \in Runnable(pb.result.version) :
                  \/ PybiScore(pb.result.version, i) < EligibleScore(Chosen)
                  \/ PybiScore(pb.result.version, i) = EligibleScore(Chosen) /\ i <= Chosen[2]

\* two versions are eligible, the chosen one has two runnable PYBIs of the
\* same score, and a later version has a PYBI of a higher score
C4_Witness ==
    /\ pb.pc = "done"
    /\ pb.result.ok
    /\ Cardinality(EligiblePositions) >= 2
    /\ \E i \in Runnable(pb.result.version) :
          i # pb.result.index /\ PybiScore(pb.result.version, i) = EligibleScore(Chosen)
    /\ \E e \in Eligible : EligibleScore(e) > EligibleScore(Chosen)

\* the artifact resolve_pybi returned
SelectedPybi == PybiAis(pb.result.version)[pb.result.index]

\* the hashes of the hint for the Brief's python, taken from the prior Blueprint
HashHints ==
    LET hints == version_hints_of(pb.like)
    IN  IF pb.brief.python.name \in DOMAIN hints THEN Some(hints[pb.brief.python.name].hashes) ELSE None

\* C25: the PYBI artifact that resolve_pybi selects is not a yanked one,
\* unless its hash appears in the hint taken from the prior Blueprint
C25_NeverYanked ==
    (pb.pc = "done" /\ pb.result.ok) => (SelectedPybi.yanked => is_pinned(HashHints, SelectedPybi))

\* the selected version has a PYBI that is not yanked and the platform can
\* run, and the selected artifact is a yanked one that no hint names
C25_Witness ==
    /\ pb.pc = "done"
    /\ pb.result.ok
    /\ \E i \in Runnable(pb.result.version) : ~PybiAis(pb.result.version)[i].yanked
    /\ SelectedPybi.yanked
    /\ ~is_pinned(HashHints, SelectedPybi)

(***************************************************************************)
(* Claims about the Blueprint's wheels, checked under SpecResolve.         *)
(***************************************************************************)
WheelPin(i) == rs.wheels[i][1]

\* the entries of the solver's solution for base packages
BaseEntries == {e \in Range(rs.solution) : e.pkg.kind = "package" /\ e.pkg.extra = None}

\* C1: in a Blueprint that is returned no two wheels have the same name, and
\* the wheels are the solution's Package(name, None) entries at their
\* versions: Root and every Package(name, Some(extra)) are left out
C1_ExtrasFlattening ==
    rs.pc = "done"
    => /\ \A i, j \in DOMAIN rs.wheels : WheelPin(i).name = WheelPin(j).name => i = j
       /\ \A i \in DOMAIN rs.wheels :
             [pkg |-> Package(WheelPin(i).name, None), version |-> WheelPin(i).version] \in BaseEntries
       /\ \A e \in BaseEntries :
             \E i \in DOMAIN rs.wheels : WheelPin(i).name = e.pkg.name /\ WheelPin(i).version = e.version

\* a Blueprint with the wheels "a" and "b" from a solution that also holds
\* Root and the virtual package a[x]
C1_Witness ==
    /\ rs.pc = "done"
    /\ \E e \in Range(rs.solution) : e.pkg = Root
    /\ \E e \in Range(rs.solution) : e.pkg = Package("a", Some("x"))
    /\ {WheelPin(i).name : i \in DOMAIN rs.wheels} = {"a", "b"}
    /\ Len(rs.wheels) = 2

\* C2: the requires_python of the metadata stored with each wheel of a
\* Blueprint that is returned admits the python_full_version of the resolve
C2_BlueprintValidity ==
    rs.pc = "done"
    => \A i \in DOMAIN rs.wheels :
          satisfied_by(rs.wheels[i][2].inner.requires_python, rs.self.python_full_version)

\* a Blueprint with a wheel whose metadata was first read for a virtual
\* extra package, declares a requires_python, and comes from a version that
\* also has a wheel whose requires_python rejects the Python version
C2_Witness ==
    /\ rs.pc = "done"
    /\ \E i \in DOMAIN rs.wheels :
          /\ rs.wheels[i][2].inner.requires_python # <<>>
          /\ \E k \in DOMAIN rs.fills :
                /\ rs.fills[k].release = <<WheelPin(i).name, WheelPin(i).version>>
                /\ rs.fills[k].pkg.extra # None
          /\ \E ai \in Range(artifacts_for_version(rs.self.db, WheelPin(i).name, WheelPin(i).version).ais) :
                ~satisfied_by(ai.core.requires_python, rs.self.python_full_version)

\* the releases whose metadata the PackageDB has extracted, in order
Extracted == [k \in DOMAIN rs.fills |-> rs.fills[k].release]

\* C20: in every step of a resolve the metadata cache keeps each entry it had
\* as it was and gains at most one, which is then the one more successful
\* extraction on record; no release is extracted with success twice; a lookup
\* of a cached release, whatever the PackageDB would answer now, returns the
\* cached record and leaves the cache alone; and the record stored with each
\* wheel of the Blueprint is the cached record of its release.
C20_MetadataCache ==
    [][LET before == rs.self.expected_metadata
           after == rs'.self.expected_metadata
       IN  /\ \A release \in DOMAIN before : release \in DOMAIN after /\ after[release] = before[release]
           /\ Cardinality(DOMAIN after \ DOMAIN before) <= 1
           /\ Len(rs'.fills) = Len(rs.fills) + Cardinality(DOMAIN after \ DOMAIN before)
           /\ {rs'.fills[k].release : k \in DOMAIN rs'.fills} = DOMAIN after
           /\ \A j, k \in DOMAIN rs'.fills : rs'.fills[j].release = rs'.fills[k].release => j = k
           /\ \A release \in DOMAIN after, choice \in 1..MaxArtifacts :
                 metadata(rs'.self, release, choice)
                     = [ok |-> TRUE, self |-> rs'.self, inner |-> after[release].inner]
           /\ rs'.pc = "done" =>
                 \A i \in DOMAIN rs'.wheels :
                    /\ <<rs'.wheels[i][1].name, rs'.wheels[i][1].version>> \in DOMAIN after
                    /\ rs'.wheels[i][2] = after[<<rs'.wheels[i][1].name, rs'.wheels[i][1].version>>]
      ]_vars

\* a Blueprint with a wheel whose release was looked up for the package and
\* for its extra, was extracted once, and has two artifacts with different
\* metadata to extract
C20_Witness ==
    /\ rs.pc = "done"
    /\ \E i \in DOMAIN rs.wheels :
          LET release == <<WheelPin(i).name, WheelPin(i).version>>
              ais == artifacts_for_version(rs.self.db, release[1], release[2]).ais
          IN  /\ \E e \in Range(rs.solution) : e.pkg = Package(release[1], None) /\ e.version = release[2]
              /\ \E e \in Range(rs.solution) : e.pkg.extra # None /\ e.pkg.name = release[1]
              /\ Cardinality({k \in DOMAIN Extracted : Extracted[k] = release}) = 1
              /\ \E j, k \in DOMAIN ais : ais[j].core # ais[k].core
              /\ rs.wheels[i][2] = rs.self.expected_metadata[release]

(***************************************************************************)
(* Claims about AllowPre's serialized form, checked under SpecAllowPre.    *)
(***************************************************************************)
Serialized == ap.origin = "value" /\ ap.pc \in {"deserialize", "done"}

ReadBack == ap.pc = "done"

\* C13 as stated: AllowPre::All serializes to the string ":all:" and ":all:"
\* deserializes to AllowPre::All; AllowPre::Some(set) serializes to the set of
\* package names and deserializes back to the same set; deserializing any
\* other string is an error.
C13_RoundTrip ==
    /\ Serialized =>
          IF ap.value.all THEN ap.document = StrDocument(":all:")
          ELSE /\ ap.document.kind = "seq"
               /\ Range(ap.document.items) = ap.value.pkgs
               /\ Len(ap.document.items) = Cardinality(ap.value.pkgs)
    /\ ReadBack /\ ap.document = StrDocument(":all:") =>
          ap.result.ok /\ ap.result.value = AllowPreAll
    /\ ReadBack /\ ap.origin = "value" => ap.result.ok /\ ap.result.value = ap.value
    /\ ReadBack /\ ap.document.kind = "str" /\ ap.document.text # ":all:" => ~ap.result.ok

\* AllowPre::All was serialized, the string came back as a copy, and the
\* deserialization failed
C13_Witness ==
    /\ ReadBack
    /\ ap.origin = "value"
    /\ ap.value = AllowPreAll
    /\ ap.document = StrDocument(":all:")
    /\ ~ap.lent
    /\ ~ap.result.ok

(***************************************************************************)
(* Claims about SeekSlice, checked under SpecSeek.                         *)
(***************************************************************************)
Sought == sk.last.op = "seek"

\* the position a seek asks for, as a number without a width
Target ==
    sk.last.pos.amount + (CASE sk.last.pos.whence = "Start" -> sk.before.start
                            [] sk.last.pos.whence = "End" -> sk.before.end
                            [] sk.last.pos.whence = "Current" -> sk.before.current)

OutsideSlice == Target < sk.before.start \/ Target >= sk.before.end

\* C14 as stated: a seek whose target lies outside the slice (before start,
\* past the end, or overflowing) returns an error and has no effect: the
\* logical position and the reader's position are unchanged, and the next
\* read returns the byte it would have returned without the seek.
C14_FailedSeekNoEffect ==
    Sought /\ OutsideSlice =>
        /\ sk.last.status = "err"
        /\ sk.slice.current = sk.before.current
        /\ sk.slice.inner.pos = sk.before.inner.pos
        /\ read(sk.slice, 1).bytes = read(sk.before, 1).bytes

\* a build with overflow checks, and a seek by i64::MIN from the current position
C14_Witness ==
    /\ Sought
    /\ sk.overflow_checks
    /\ sk.last.pos = SeekFrom("Current", I64Min)
    /\ OutsideSlice
    /\ sk.last.status = "panic"
    /\ sk.pc = "panicked"

\* C15 as stated: at any point seek(SeekFrom::Current(0)) succeeds and returns
\* the offset of the current position from start: 0 right after construction,
\* n more after n bytes read; the positions returned by seek(Start(k)) and
\* seek(End(-k)) are relative to start as well.
C15_RelativePosition ==
    /\ sk.pc = "ready" =>
          LET r == seek(sk.slice, SeekFrom("Current", 0), sk.overflow_checks)
          IN  r.status = "ok" /\ r.value = sk.slice.current - sk.slice.start
    /\ Sought /\ sk.last.pos = SeekFrom("Current", 0) =>
          sk.last.status = "ok" /\ sk.last.value = sk.before.current - sk.before.start
    /\ sk.pc = "ready" /\ sk.last.op = "new" => sk.slice.current - sk.slice.start = 0
    /\ sk.last.op = "read" => sk.slice.current = sk.before.current + Len(sk.last.bytes)
    /\ Sought /\ sk.last.status = "ok" /\ sk.last.pos.whence = "Start" =>
          sk.last.value = sk.last.pos.amount /\ sk.slice.current = sk.slice.start + sk.last.value
    /\ Sought /\ sk.last.status = "ok" /\ sk.last.pos.whence = "End" =>
          /\ sk.last.value = (sk.slice.end - sk.slice.start) + sk.last.pos.amount
          /\ sk.slice.current = sk.slice.start + sk.last.value

\* the slice [2, 8) read to its end, and seek(Current(0)) then refused
C15_Witness ==
    /\ Sought
    /\ sk.last.pos = SeekFrom("Current", 0)
    /\ sk.before.start = 2
    /\ sk.before.end = 8
    /\ sk.before.current = 8
    /\ sk.last.status = "err"

\* a slice has been constructed
Constructed == sk.pc = "ready" \/ (sk.pc = "panicked" /\ sk.last.op = "seek")

\* C22: after the construction and after every seek and read of a SeekSlice
\* over [start, end), start <= current <= end; a read returns at most
\* end - current bytes, taken from the reader at the positions from current
\* on, all of them in [start, end), and no byte when current = end.
C22_WithinSlice ==
    /\ Constructed => sk.slice.start <= sk.slice.current /\ sk.slice.current <= sk.slice.end
    /\ sk.last.op = "read" =>
          /\ Len(sk.last.bytes) <= sk.before.end - sk.before.current
          /\ \A i \in DOMAIN sk.last.bytes :
                /\ sk.last.bytes[i] = sk.before.current + i - 1
                /\ sk.before.start <= sk.last.bytes[i]
                /\ sk.last.bytes[i] < sk.before.end
          /\ sk.before.current = sk.before.end => sk.last.bytes = <<>>
          /\ sk.last.value = Len(sk.last.bytes)

\* a read that stops at the end of the slice, short of its buffer, with
\* bytes of the reader left behind the slice
C22_Witness ==
    /\ sk.last.op = "read"
    /\ Len(sk.last.bytes) = 2
    /\ sk.slice.current = sk.slice.end
    /\ sk.slice.end < sk.slice.inner.len
    /\ sk.slice.start > 0

(***************************************************************************)
(* Claims about the DependencyProvider, checked under SpecProvider.        *)
(***************************************************************************)
Chose == dp.pc = "ready" /\ dp.call.op = "choose_package_version"

GotDependencies == dp.pc = "ready" /\ dp.call.op = "get_dependencies"

\* the version selector's answer for the package of the last call
SelectorOrder ==
    fetch_and_sort_versions(dp.call.before.db, dp.call.before.brief, dp.call.pkg.name,
                            Some(dp.call.before.python_full_version), dp.call.before.version_hints)

InRange == SelectSeq(SelectorOrder.versions, LAMBDA v : v \in dp.call.range)

Loaded(release) == release \in DOMAIN dp.self.expected_metadata

Record(release) == dp.self.expected_metadata[release].inner

\* C18: choose_package_version answers version 0 for Root.  For a package,
\* where the version selector gives an order: with no version of it in the
\* offered range the answer is no candidate; otherwise only the first version
\* in range is looked at, an answer is that version with its metadata loaded
\* and admitting the Python, and when the loaded metadata's requires_python
\* refuses the Python the call fails with that error and loads nothing else.
C18_ChooseVersion ==
    Chose =>
        LET call == dp.call
            first == <<call.pkg.name, InRange[1]>>
        IN  /\ call.pkg = Root => call.ok /\ call.chosen = Some(ROOT_VERSION)
            /\ call.pkg # Root /\ SelectorOrder.ok /\ InRange = <<>> => call.ok /\ call.chosen = None
            /\ call.pkg # Root /\ SelectorOrder.ok /\ InRange # <<>> =>
                   /\ DOMAIN dp.self.expected_metadata \subseteq DOMAIN call.before.expected_metadata \cup {first}
                   /\ call.ok => /\ call.chosen = Some(InRange[1])
                                 /\ Loaded(first)
                                 /\ satisfied_by(Record(first).requires_python, dp.self.python_full_version)
                   /\ ~call.ok => call.chosen = None /\ call.error \in {"metadata", "bad requires-python"}
                   /\ Loaded(first) =>
                          (call.error = "bad requires-python"
                              <=> ~satisfied_by(Record(first).requires_python, dp.self.python_full_version))
                   /\ ~Loaded(first) <=> call.error = "metadata"

\* the first version in range is refused for its requires_python while a
\* later version in range has a wheel that would have been admitted
C18_Witness ==
    /\ Chose
    /\ dp.call.error = "bad requires-python"
    /\ Len(InRange) = 2
    /\ LET later == artifacts_for_version(dp.self.db, dp.call.pkg.name, InRange[2])
       IN  \E i \in DOMAIN later.ais :
              satisfied_by(later.ais[i].core.requires_python, dp.self.python_full_version)

\* the lowering of the requires_dist of the release of the last call, for
\* the extra of that call
Lowering ==
    requirements_to_pubgrub(dp.self.env, Record(<<dp.call.pkg.name, dp.call.version>>).requires_dist, <<>>,
                            dp.call.pkg.extra)

MissingExtra ==
    /\ dp.call.pkg.extra # None
    /\ Unwrap(dp.call.pkg.extra) \notin Record(<<dp.call.pkg.name, dp.call.version>>).extras

\* dc with the constraint that q is exactly the version v
WithExactly(dc, q, v) == [r \in DOMAIN dc \cup {q} |-> IF r = q THEN {v} ELSE dc[r]]

\* C19 as stated: get_dependencies for Package(name, Some(extra)) at v fails
\* with the missing-extra error when metadata.extras does not hold the extra;
\* otherwise it returns the lowering of requires_dist for that extra with
\* Package(name, None) constrained to exactly v; for Package(name, None) it
\* returns the lowering for the empty extra, and no self-edge.
C19_Original ==
    GotDependencies /\ dp.call.pkg # Root /\ Loaded(<<dp.call.pkg.name, dp.call.version>>) =>
        LET call == dp.call
        IN  IF MissingExtra THEN ~call.ok /\ call.error = "missing extra"
            ELSE Lowering.ok =>
                    /\ call.ok
                    /\ call.dc = IF call.pkg.extra = None THEN Lowering.dc
                                 ELSE WithExactly(Lowering.dc, Package(call.pkg.name, None), call.version)

\* C19 (amended): get_dependencies lowers requires_dist first, and a failure
\* of the lowering is the error of the call whatever the extras are.  With
\* the lowering done, Package(name, Some(extra)) at v fails with the
\* missing-extra error when metadata.extras does not hold the extra, and
\* otherwise returns the lowering for that extra with Package(name, None) set
\* to exactly v, in place of what the lowering had for it; Package(name, None)
\* returns the lowering for the empty extra, and no self-edge.
C19_Amended ==
    GotDependencies /\ dp.call.pkg # Root =>
        LET call == dp.call
        IN  IF ~Loaded(<<call.pkg.name, call.version>>) THEN ~call.ok /\ call.error = "metadata"
            ELSE IF ~Lowering.ok THEN ~call.ok /\ call.error = "lowering"
            ELSE IF MissingExtra THEN ~call.ok /\ call.error = "missing extra"
            ELSE /\ call.ok
                 /\ call.dc = IF call.pkg.extra = None THEN Lowering.dc
                              ELSE WithExactly(Lowering.dc, Package(call.pkg.name, None), call.version)

\* the extra is there, its marker has let a requirement in, and the self-edge
\* has taken the place of the wheel's own requirement on its package
C19_Witness ==
    /\ GotDependencies
    /\ dp.call.ok
    /\ dp.call.pkg = Package("a", Some("x"))
    /\ dp.call.dc[Package("a", None)] = {dp.call.version}
    /\ Lowering.dc[Package("a", None)] # {dp.call.version}
    /\ dp.call.dc[Package("b", None)] = to_ranges(Specifier(">=", 2))


\* the requirement list that the last call of get_dependencies lowered
Lowered ==
    IF dp.call.pkg = Root THEN dp.self.brief.requirements
    ELSE Record(<<dp.call.pkg.name, dp.call.version>>).requires_dist

\* the requirements of the list that apply in the call and are on q
ApplicableOn(q) ==
    {i \in DOMAIN Lowered :
        /\ Lowered[i].name = q.name
        /\ IF q.extra = None THEN Lowered[i].extras = <<>> ELSE Unwrap(q.extra) \in Range(Lowered[i].extras)
        /\ \/ Lowered[i].env_marker_expr = None
           \/ eval(Unwrap(Lowered[i].env_marker_expr), dp.self.env, dp.call.pkg.extra).value}

\* the self-edge of a package with an extra is no requirement of the list
SelfEdge(q) == dp.call.pkg.extra # None /\ q = Package(dp.call.pkg.name, None)

\* C23 as stated: the constraint that a lowered requirement list gives for a
\* package admits a version only if every applicable requirement of the list
\* on that package admits it.
C23_Intersection ==
    GotDependencies /\ dp.call.ok =>
        \A q \in DOMAIN dp.call.dc :
            ~SelfEdge(q) =>
                \A v \in dp.call.dc[q] :
                    \A i \in ApplicableOn(q) : v \in specifiers_to_pubgrub(Lowered[i].specifiers)

\* b < 2 and, under the extra x, b >= 2 both apply: no version satisfies
\* both, and the constraint returned is that of the later of the two
C23_Witness ==
    /\ GotDependencies
    /\ dp.call.ok
    /\ dp.call.pkg = Package("a", Some("x"))
    /\ Cardinality(ApplicableOn(Package("b", None))) = 2
    /\ \A v \in RangeAny :
          \E i \in ApplicableOn(Package("b", None)) : v \notin specifiers_to_pubgrub(Lowered[i].specifiers)
    /\ dp.call.dc[Package("b", None)] = to_ranges(Specifier(">=", 2))

=============================================================================
